---- MODULE Spec2Model ----
(***************************************************************************)
(* GPX container pipeline of rust-gpx-reader: the BitBuffer bit reader,    *)
(* the BCFZ decompressor, the BCFS sector walker and the read dispatcher   *)
(* (src/src/bitbuffer.rs, src/src/gpx/mod.rs).                             *)
(*                                                                         *)
(* Values wider than TLC's integers are kept signed: an i32 that the code  *)
(* casts with `as usize` / `as u64` is carried as the i32, and the places  *)
(* that use the cast value (comparisons, the multiplication by the sector  *)
(* size) treat a negative i32 as the value >= 2^63 the cast produces.      *)
(***************************************************************************)
EXTENDS Integers, Sequences, FiniteSets, TLC

VARIABLES
  input,                          \* the byte slice handed to the entry point
  caller,                         \* "read" when read() made the current call
  pc,                             \* position in the running function
  result,                         \* what the entry point returned
  zdata,                          \* decompress_bcfz: its argument `data`
  bb,                             \* decompress_bcfz: the BitBuffer
  expected_decompressed_data_len, \* decompress_bcfz: the declared length
  decompressed_data,              \* decompress_bcfz: the output vector
  chunk,                          \* locals of the last chunk function run
  bcfs_data,                      \* read: the decompressed BCFZ payload
  data,                           \* decompress_bcfs: its argument `data`
  offset,                         \* decompress_bcfs: the walk offset
  files,                          \* decompress_bcfs: the output list
  dir,                            \* decompress_bcfs: index_file_name - 4
  file_data,                      \* decompress_bcfs: sectors accumulated
  block_count,                    \* decompress_bcfs: block table index
  file_size,                      \* decompress_bcfs: the declared size word
  call,                           \* the last function called on its own
  io,                             \* legacy reader: bytes of input consumed
  headers,                        \* read_measure_headers: the headers read
  channels,                       \* the channel bank of the song being read
  tracks                          \* read_tracks: the tracks read

vars == <<input, caller, pc, result, zdata, bb, expected_decompressed_data_len,
          decompressed_data, chunk, bcfs_data, data, offset, files, dir,
          file_data, block_count, file_size, call, io, headers, channels,
          tracks>>

bcfzVars == <<zdata, bb, expected_decompressed_data_len, decompressed_data, chunk>>
bcfsVars == <<data, offset, files, dir, file_data, block_count, file_size>>
songVars == <<headers, channels, tracks>>
legacyVars == <<io, songVars>>
unitVars == <<call, legacyVars>>

----------------------------------------------------------------------------
(* Arithmetic on bytes and words                                           *)

Min(a, b) == IF a <= b THEN a ELSE b

RECURSIVE Pow2(_)
Pow2(n) == IF n = 0 THEN 1 ELSE 2 * Pow2(n - 1)

\* x >> n
Shr(x, n) == x \div Pow2(n)

\* x << n
Shl(x, n) == x * Pow2(n)

\* word | (1 << k)
SetBit(word, k) == IF Shr(word, k) % 2 = 0 THEN word + Shl(1, k) ELSE word

\* LittleEndian::read_i32 of four bytes, as a signed 32-bit value
LittleEndianI32(b0, b1, b2, b3) ==
  b0 + 256 * b1 + 65536 * b2 + 16777216 * (IF b3 >= 128 THEN b3 - 256 ELSE b3)

----------------------------------------------------------------------------
(* BitBuffer (src/src/bitbuffer.rs).  A BitBuffer value is the record       *)
(* [bit_position, byte, cursor]: cursor is the position of the Cursor over  *)
(* the slice d.  nread is a history field: the number of read_bit calls so  *)
(* far, saturating one past the number of bits of d.                        *)

BitBufferNew == [bit_position |-> 8, byte |-> 0, cursor |-> 0, nread |-> 0]

\* read_bit taking the bits of a byte from the least significant one
read_bit_lsb(b, d) ==
  LET refill == b.bit_position = 8
      more   == b.cursor < Len(d)
      byte   == IF refill THEN (IF more THEN d[b.cursor + 1] ELSE 0) ELSE b.byte
      bp     == IF refill THEN 0 ELSE b.bit_position
  IN  [bb  |-> [bit_position |-> bp + 1,
                byte         |-> byte,
                cursor       |-> IF refill /\ more THEN b.cursor + 1 ELSE b.cursor,
                nread        |-> Min(b.nread + 1, 8 * Len(d) + 1)],
       bit |-> Shr(byte, bp) % 2]

\* Cursor::read into a one-byte buffer returns Ok(0) at the end of the slice
\* and leaves the buffer's 0 in place: read_bit has no failing path.
read_bit(b, d) ==
  LET refill == b.bit_position = 8
      more   == b.cursor < Len(d)
      byte   == IF refill THEN (IF more THEN d[b.cursor + 1] ELSE 0) ELSE b.byte
      bp     == IF refill THEN 0 ELSE b.bit_position
  IN  [bb  |-> [bit_position |-> bp + 1,
                byte         |-> byte,
                cursor       |-> IF refill /\ more THEN b.cursor + 1 ELSE b.cursor,
                nread        |-> Min(b.nread + 1, 8 * Len(d) + 1)],
       bit |-> Shr(byte, 7 - bp) % 2]

\* the loop of read_bits from index idx on: word = word | (bit << (count - 1 - idx))
RECURSIVE read_bits_from(_, _, _, _, _)
read_bits_from(b, d, count, idx, word) ==
  IF idx >= count THEN [bb |-> b, word |-> word]
  ELSE LET r == read_bit(b, d)
       IN  IF r.bit = 1 /\ Shr(word, count - 1 - idx) % 2 = 0
             THEN read_bits_from(r.bb, d, count, idx + 1, SetBit(word, count - 1 - idx))
             ELSE read_bits_from(r.bb, d, count, idx + 1, word)

\* read_bits whose loop starts at index 1
read_bits_skip(b, d, count) == read_bits_from(b, d, count, 1, 0)

\* bigEndian MSB (count <= 64 is asserted; every caller passes at most 15)
read_bits(b, d, count) == read_bits_from(b, d, count, 0, 0)

\* the loop of read_bits_reversed from index idx on: word = word | (bit << idx)
RECURSIVE read_bits_reversed_from(_, _, _, _, _)
read_bits_reversed_from(b, d, count, idx, word) ==
  IF idx >= count THEN [bb |-> b, word |-> word]
  ELSE LET r == read_bit(b, d)
       IN  IF r.bit = 1 /\ Shr(word, idx) % 2 = 0
             THEN read_bits_reversed_from(r.bb, d, count, idx + 1, SetBit(word, idx))
             ELSE read_bits_reversed_from(r.bb, d, count, idx + 1, word)

\* read_bits_reversed packing the first bit into the top position
read_bits_reversed_msb(b, d, count) == read_bits_from(b, d, count, 0, 0)

\* read_bits_reversed whose loop starts at index 1
read_bits_reversed_skip(b, d, count) == read_bits_reversed_from(b, d, count, 1, 0)

read_bits_reversed(b, d, count) == read_bits_reversed_from(b, d, count, 0, 0)

\* Read::read handing out the next whole bytes of the slice
read_whole(b, d, n) ==
  [bb  |-> [b EXCEPT !.cursor = Min(b.cursor + n, Len(d))],
   buf |-> [i \in 1 .. n |-> IF b.cursor + i <= Len(d) THEN d[b.cursor + i] ELSE 0]]

\* impl Read for BitBuffer: fills a buffer of n bytes, one read_bits(8) each
RECURSIVE read(_, _, _)
read(b, d, n) ==
  IF n = 0 THEN [bb |-> b, buf |-> <<>>]
  ELSE LET r    == read_bits(b, d, 8)
           rest == read(r.bb, d, n - 1)
       IN  [bb |-> rest.bb, buf |-> <<r.word>> \o rest.buf]

\* ReadBytesExt::read_i32::<LittleEndian> over the BitBuffer
read_i32(b, d) ==
  LET r == read(b, d, 4)
  IN  [bb |-> r.bb,
       value |-> LittleEndianI32(r.buf[1], r.buf[2], r.buf[3], r.buf[4])]

----------------------------------------------------------------------------
(* decompress_bcfz (src/src/gpx/mod.rs)                                     *)

NoChunk ==
  [marker |-> -1, at |-> 0, before |-> <<>>, len |-> 0, word_size |-> 0,
   offset |-> 0, ok |-> TRUE]

\* read_uncompressed_chunk taking its count with read_bits
read_uncompressed_chunk_msb(b, d, out) ==
  LET r1  == read_bits(b, d, 2)
      len == r1.word
      r2  == read(r1.bb, d, len)
  IN  [bb |-> r2.bb, decompressed_data |-> out \o r2.buf, len |-> len]

read_uncompressed_chunk(b, d, out) ==
  LET r1  == read_bits_reversed(b, d, 2)
      len == r1.word
      r2  == read(r1.bb, d, len)
  IN  [bb |-> r2.bb, decompressed_data |-> out \o r2.buf, len |-> len]

\* ok is FALSE when assert!(decompressed_data.len() >= offset) fails or the
\* slice range leaves the vector: the chunk panics.
read_compressed_chunk(b, d, out) ==
  LET r1              == read_bits(b, d, 4)
      word_size       == r1.word
      r2              == read_bits_reversed(r1.bb, d, word_size)
      off             == r2.word
      r3              == read_bits_reversed(r2.bb, d, word_size)
      len             == r3.word
      asserted        == Len(out) >= off
      source_position == Len(out) - off
      to_read         == Min(len, off)
      ok              == asserted /\ source_position + to_read <= Len(out)
      slice           == SubSeq(out, source_position + 1, source_position + to_read)
  IN  [bb |-> r3.bb, ok |-> ok,
       decompressed_data |-> IF ok THEN out \o slice ELSE out,
       word_size |-> word_size, offset |-> off, len |-> len]

\* the while loop stopping one byte early
BcfzLoopCondShort(out, expected) == Len(out) + 1 < expected

\* the condition of the while loop
BcfzLoopCond(out, expected) == Len(out) < expected

\* BitBuffer::new, the header read and Vec::with_capacity.  A negative i32
\* cast `as usize` exceeds isize::MAX and with_capacity panics.
DecompressBcfzStart ==
  /\ pc = "decompress_bcfz"
  /\ LET r == read_i32(BitBufferNew, zdata)
     IN  /\ bb' = r.bb
         /\ expected_decompressed_data_len' = r.value
         /\ pc' = IF r.value < 0 THEN "panic" ELSE "bcfz_loop"
  /\ decompressed_data' = <<>>
  /\ UNCHANGED <<input, caller, result, zdata, chunk, bcfs_data, bcfsVars>>
  /\ UNCHANGED unitVars

\* one loop iteration with marker bit 0
BcfzUncompressedChunk ==
  /\ pc = "bcfz_loop"
  /\ BcfzLoopCond(decompressed_data, expected_decompressed_data_len)
  /\ LET m == read_bit(bb, zdata)
         r == read_uncompressed_chunk(m.bb, zdata, decompressed_data)
     IN  /\ m.bit = 0
         /\ bb' = r.bb
         /\ decompressed_data' = r.decompressed_data
         /\ chunk' = [marker |-> 0, at |-> bb.nread, before |-> decompressed_data,
                      len |-> r.len, word_size |-> 0, offset |-> 0, ok |-> TRUE]
  /\ UNCHANGED <<input, caller, pc, result, zdata, expected_decompressed_data_len,
                 bcfs_data, bcfsVars>>
  /\ UNCHANGED unitVars

\* one loop iteration with marker bit 1
BcfzCompressedChunk ==
  /\ pc = "bcfz_loop"
  /\ BcfzLoopCond(decompressed_data, expected_decompressed_data_len)
  /\ LET m == read_bit(bb, zdata)
         r == read_compressed_chunk(m.bb, zdata, decompressed_data)
     IN  /\ m.bit = 1
         /\ bb' = r.bb
         /\ decompressed_data' = r.decompressed_data
         /\ chunk' = [marker |-> 1, at |-> bb.nread, before |-> decompressed_data,
                      len |-> r.len, word_size |-> r.word_size,
                      offset |-> r.offset, ok |-> r.ok]
         /\ pc' = IF r.ok THEN "bcfz_loop" ELSE "panic"
  /\ UNCHANGED <<input, caller, result, zdata, expected_decompressed_data_len,
                 bcfs_data, bcfsVars>>
  /\ UNCHANGED unitVars

\* the loop ends and decompress_bcfz returns Ok(decompressed_data)
BcfzReturn ==
  /\ pc = "bcfz_loop"
  /\ ~BcfzLoopCond(decompressed_data, expected_decompressed_data_len)
  /\ IF caller = "read"
       THEN /\ pc' = "read_bcfz_done"
            /\ bcfs_data' = decompressed_data
            /\ UNCHANGED result
       ELSE /\ pc' = "done"
            /\ result' = [kind |-> "Ok", value |-> decompressed_data]
            /\ UNCHANGED bcfs_data
  /\ UNCHANGED <<input, caller, bcfzVars, bcfsVars>>
  /\ UNCHANGED unitVars

NextBcfz ==
  \/ DecompressBcfzStart
  \/ BcfzUncompressedChunk
  \/ BcfzCompressedChunk
  \/ BcfzReturn

----------------------------------------------------------------------------
(* Inputs of decompress_bcfz: a 4-byte little-endian length followed by the *)
(* bits of at most MaxChunks chunks, zero-padded to whole bytes, with the   *)
(* last byte possibly cut off.                                              *)

MaxChunks == 2
MaxDeclaredLen == 4

LitPayloads == {<<>>, <<83>>, <<66, 67>>, <<66, 67, 70>>}
WordSizes == {0, 1, 2}
DeclaredLens == -1 .. MaxDeclaredLen
Cuts == {0, 1}

\* the offset and length pairs that need all w bits of a word
BackRefs(w) ==
  {ol \in (0 .. Pow2(w) - 1) \X (0 .. Pow2(w) - 1) :
     w = 0 \/ ol[1] >= Pow2(w - 1) \/ ol[2] >= Pow2(w - 1)}

GenChunks ==
  {[marker |-> 0, payload |-> p, word_size |-> 0, offset |-> 0, len |-> 0] :
      p \in LitPayloads}
  \cup
  UNION {{[marker |-> 1, payload |-> <<>>, word_size |-> w, offset |-> o, len |-> l] :
            <<o, l>> \in BackRefs(w)} : w \in WordSizes}

ChunkSeqs == UNION {[1 .. n -> GenChunks] : n \in 0 .. MaxChunks}

BitsLsb(v, n) == [i \in 1 .. n |-> (v \div Pow2(i - 1)) % 2]
BitsMsb(v, n) == [i \in 1 .. n |-> (v \div Pow2(n - i)) % 2]

RECURSIVE BytesBits(_)
BytesBits(bs) ==
  IF bs = <<>> THEN <<>> ELSE BitsMsb(Head(bs), 8) \o BytesBits(Tail(bs))

ChunkBits(c) ==
  IF c.marker = 0
    THEN <<0>> \o BitsLsb(Len(c.payload), 2) \o BytesBits(c.payload)
    ELSE <<1>> \o BitsMsb(c.word_size, 4) \o BitsLsb(c.offset, c.word_size)
               \o BitsLsb(c.len, c.word_size)

RECURSIVE ChunksBits(_)
ChunksBits(cs) ==
  IF cs = <<>> THEN <<>> ELSE ChunkBits(Head(cs)) \o ChunksBits(Tail(cs))

PackBytes(bits) ==
  [k \in 1 .. ((Len(bits) + 7) \div 8) |->
     LET b(j) == IF 8 * (k - 1) + j <= Len(bits) THEN bits[8 * (k - 1) + j] ELSE 0
     IN  128 * b(1) + 64 * b(2) + 32 * b(3) + 16 * b(4)
         + 8 * b(5) + 4 * b(6) + 2 * b(7) + b(8)]

I32Bytes(v) ==
  <<v % 256, (v \div 256) % 256, (v \div 65536) % 256, (v \div 16777216) % 256>>

BcfzStream(L, cs, cut) ==
  LET body == PackBytes(ChunksBits(cs))
  IN  I32Bytes(L) \o SubSeq(body, 1, Len(body) - Min(cut, Len(body)))

NoResult == [kind |-> "none"]
NoData == [len |-> 0, bytes |-> <<>>, dirs |-> <<>>]

NoCall == [op |-> "none"]

IdleLegacy == io = 0 /\ headers = <<>> /\ channels = <<>> /\ tracks = <<>>

IdleUnit == call = NoCall /\ IdleLegacy

IdleBcfz ==
  /\ bb = BitBufferNew
  /\ expected_decompressed_data_len = 0
  /\ decompressed_data = <<>>
  /\ chunk = NoChunk

IdleBcfs ==
  /\ data = NoData
  /\ offset = 0
  /\ files = <<>>
  /\ dir = 0
  /\ file_data = <<>>
  /\ block_count = 0
  /\ file_size = 0

\* a direct call decompress_bcfz(input)
InitBcfz ==
  /\ \E L \in DeclaredLens : \E cs \in ChunkSeqs : \E cut \in Cuts :
        input = BcfzStream(L, cs, cut)
  /\ zdata = input
  /\ caller = "none"
  /\ pc = "decompress_bcfz"
  /\ result = NoResult
  /\ bcfs_data = <<>>
  /\ IdleBcfz
  /\ IdleBcfs
  /\ IdleUnit

SpecBcfz == InitBcfz /\ [][NextBcfz]_vars

----------------------------------------------------------------------------
(* decompress_bcfs (src/src/gpx/mod.rs).  A slice too long to be written   *)
(* out byte by byte is the record [len, bytes, dirs]: len bytes long, its   *)
(* first Len(bytes) bytes given one by one, the rest by sector, sector 0    *)
(* starting right after them: dirs maps the index of a sector that holds a  *)
(* directory entry to [name, size, table], the filename, the word at +0x8C  *)
(* and the words from +0x94 on; every other word is 0.  The 0x1000 bytes    *)
(* read from position p are carried as p, and a file's bytes as             *)
(* [from, len]: the first len bytes of the sectors read from `from`.        *)
(* Filenames are numbered: name 0 is the empty string.                      *)

sector_size == 4096

\* the 32-bit word at position r of a directory sector
DirWord(e, r) ==
  IF r = 0 THEN 2
  ELSE IF r = 140 THEN e.size
  ELSE IF r >= 148 /\ (r - 148) % 4 = 0 /\ (r - 148) \div 4 < Len(e.table)
         THEN e.table[((r - 148) \div 4) + 1]
  ELSE 0

\* the 32-bit little-endian word at position p of slice d
WordAt(d, p) ==
  IF p + 4 <= Len(d.bytes)
    THEN LittleEndianI32(d.bytes[p + 1], d.bytes[p + 2], d.bytes[p + 3], d.bytes[p + 4])
  ELSE LET q == p - Len(d.bytes)
       IN  IF q >= 0 /\ (q \div sector_size) \in DOMAIN d.dirs
             THEN DirWord(d.dirs[q \div sector_size], q % sector_size)
             ELSE 0

\* reader.set_position(p); reader.read_i32::<LittleEndian>()
ReadI32At(d, p) ==
  IF p + 4 > d.len THEN [ok |-> FALSE, value |-> 0]
  ELSE [ok |-> TRUE, value |-> WordAt(d, p)]

\* reader.set_position(p); reader.read_exact(buf) for a buffer of n bytes
ReadExactAt(d, p, n) == p + n <= d.len

\* the 127 bytes at p through from_utf8_lossy and trim_right_matches('\0')
FileNameAt(d, p) ==
  LET q == p - Len(d.bytes)
  IN  IF q >= 0 /\ (q \div sector_size) \in DOMAIN d.dirs /\ q % sector_size = 4
        THEN d.dirs[q \div sector_size].name
        ELSE 0

\* &d[n..] for n within the bytes written out
SliceFrom(d, n) ==
  [len |-> d.len - n, bytes |-> SubSeq(d.bytes, n + 1, Len(d.bytes)), dirs |-> d.dirs]

\* a byte vector as a slice
SliceOf(bytes) == [len |-> Len(bytes), bytes |-> bytes, dirs |-> <<>>]

\* the size check with < for <=
SizeFitsStrict(size, sectors) == size >= 0 /\ size < Len(sectors) * sector_size

\* file_size <= file_data.len(), file_size being an i32 cast `as usize`
SizeFits(size, sectors) == size >= 0 /\ size <= Len(sectors) * sector_size

\* &file_data[0..file_size]
FileBytes(sectors, size) == [from |-> sectors, len |-> size]

\* the block offset taken one sector too far
BlockOffsetNext(block) == (block + 1) * sector_size

\* (block as u64) * sector_size for a block index inside u64's range
BlockOffset(block) == block * sector_size

MaxFiles == 4

IoError == [kind |-> "Err", error |-> "Io"]
FormatError == [kind |-> "Err", error |-> "FormatError"]

\* lines 96-100
DecompressBcfsStart ==
  /\ pc = "decompress_bcfs"
  /\ offset' = 0
  /\ files' = <<>>
  /\ pc' = "bcfs_walk"
  /\ UNCHANGED <<input, caller, result, bcfzVars, bcfs_data, data, dir, file_data,
                 block_count, file_size>>
  /\ UNCHANGED unitVars

\* the walk leaves the data: break, Ok(files)
BcfsBreak ==
  /\ pc = "bcfs_walk"
  /\ offset + sector_size + 3 >= data.len
  /\ offset' = offset + sector_size
  /\ pc' = "done"
  /\ result' = [kind |-> "Ok", value |-> files]
  /\ UNCHANGED <<input, caller, bcfzVars, bcfs_data, data, files, dir, file_data,
                 block_count, file_size>>
  /\ UNCHANGED unitVars

\* the sector at the next offset does not start with the word 2
BcfsSkipSector ==
  /\ pc = "bcfs_walk"
  /\ offset + sector_size + 3 < data.len
  /\ LET r == ReadI32At(data, offset + sector_size)
     IN  /\ ~(r.ok /\ r.value = 2)
         /\ offset' = offset + sector_size
         /\ IF r.ok
              THEN UNCHANGED <<pc, result>>
              ELSE pc' = "done" /\ result' = IoError
  /\ UNCHANGED <<input, caller, bcfzVars, bcfs_data, data, files, dir, file_data,
                 block_count, file_size>>
  /\ UNCHANGED unitVars

\* the sector at the next offset is a directory entry: lines 109-115
BcfsDirectory ==
  /\ pc = "bcfs_walk"
  /\ offset + sector_size + 3 < data.len
  /\ LET r == ReadI32At(data, offset + sector_size)
     IN  r.ok /\ r.value = 2
  /\ offset' = offset + sector_size
  /\ dir' = offset + sector_size
  /\ file_data' = <<>>
  /\ block_count' = 0
  /\ pc' = "bcfs_blocks"
  /\ UNCHANGED <<input, caller, result, bcfzVars, bcfs_data, data, files, file_size>>
  /\ UNCHANGED unitVars

\* one iteration of the block loop that does not break.  For a negative
\* block the multiplication overflows u64: a build with overflow checks
\* panics, one without wraps to a position past the data and read_exact fails.
BcfsBlock ==
  /\ pc = "bcfs_blocks"
  /\ LET r == ReadI32At(data, dir + 148 + 4 * block_count)
     IN  /\ ~(r.ok /\ r.value = 0)
         /\ IF ~r.ok
              THEN /\ pc' = "done" /\ result' = IoError
                   /\ UNCHANGED <<offset, file_data, block_count>>
            ELSE IF r.value < 0
              THEN /\ \E checked \in BOOLEAN :
                        IF checked
                          THEN pc' = "panic" /\ UNCHANGED result
                          ELSE pc' = "done" /\ result' = IoError
                   /\ UNCHANGED <<offset, file_data, block_count>>
            ELSE IF ~ReadExactAt(data, BlockOffset(r.value), sector_size)
              THEN /\ pc' = "done" /\ result' = IoError
                   /\ offset' = BlockOffset(r.value)
                   /\ UNCHANGED <<file_data, block_count>>
            ELSE /\ offset' = BlockOffset(r.value)
                 /\ file_data' = Append(file_data, BlockOffset(r.value))
                 /\ block_count' = block_count + 1
                 /\ UNCHANGED <<pc, result>>
  /\ UNCHANGED <<input, caller, bcfzVars, bcfs_data, data, files, dir, file_size>>
  /\ UNCHANGED unitVars

\* the block loop breaks on a zero word: lines 130-143
BcfsEndOfBlocks ==
  /\ pc = "bcfs_blocks"
  /\ Len(files) < MaxFiles
  /\ LET r == ReadI32At(data, dir + 148 + 4 * block_count)
         z == ReadI32At(data, dir + 140)
     IN  /\ r.ok /\ r.value = 0
         /\ file_size' = z.value
         /\ IF ~z.ok \/ (SizeFits(z.value, file_data) /\ ~ReadExactAt(data, dir + 4, 127))
              THEN pc' = "done" /\ result' = IoError /\ UNCHANGED files
            ELSE /\ pc' = "bcfs_walk"
                 /\ UNCHANGED result
                 /\ files' = IF SizeFits(z.value, file_data)
                               THEN Append(files,
                                           [file_name |-> FileNameAt(data, dir + 4),
                                            file_data |-> FileBytes(file_data, z.value)])
                               ELSE files
  /\ UNCHANGED <<input, caller, bcfzVars, bcfs_data, data, offset, dir, file_data,
                 block_count>>
  /\ UNCHANGED unitVars

NextBcfs ==
  \/ DecompressBcfsStart
  \/ BcfsBreak
  \/ BcfsSkipSector
  \/ BcfsDirectory
  \/ BcfsBlock
  \/ BcfsEndOfBlocks

----------------------------------------------------------------------------
(* Inputs of decompress_bcfs: images of MaxSector + 1 whole sectors with    *)
(* at most MaxDirs directory sectors among sectors 1 .. MaxSector, whose    *)
(* block tables hold at most MaxBlocks words in all and whose entries       *)
(* declare one size.                                                        *)

MaxSector == 3
MaxDirs == 2
MaxBlocks == 2

BlockVals == {-1, 0} \cup (1 .. MaxSector + 1)
FileSizes == {0, sector_size, sector_size + 1, -1}

DirSets == {S \in SUBSET (1 .. MaxSector) : Cardinality(S) <= MaxDirs}

RECURSIVE SumOver(_, _)
SumOver(f, S) ==
  IF S = {} THEN 0
  ELSE LET s == CHOOSE x \in S : TRUE IN f[s] + SumOver(f, S \ {s})

\* the image whose directory sectors S declare the size given and share the
\* words w in ascending order of sector, lens[s] words to sector s
BcfsImage(S, size, lens, w) ==
  [len   |-> (MaxSector + 1) * sector_size,
   bytes |-> <<>>,
   dirs  |-> [s \in S |->
                LET start == SumOver(lens, {t \in S : t < s})
                IN  [name  |-> s,
                     size  |-> size,
                     table |-> SubSeq(w, start + 1, start + lens[s])]]]

\* input is one of the images
IsBcfsImage(img) ==
  \E S \in DirSets : \E k \in 0 .. MaxBlocks :
    \E lens \in [S -> 0 .. k] :
      /\ SumOver(lens, S) = k
      /\ \E size \in FileSizes : \E w \in [1 .. k -> BlockVals] :
            img = BcfsImage(S, size, lens, w)

\* a direct call decompress_bcfs(input)
InitBcfs ==
  /\ IsBcfsImage(input)
  /\ data = input
  /\ caller = "none"
  /\ pc = "decompress_bcfs"
  /\ result = NoResult
  /\ bcfs_data = <<>>
  /\ zdata = <<>>
  /\ IdleBcfz
  /\ offset = 0
  /\ files = <<>>
  /\ dir = 0
  /\ file_data = <<>>
  /\ block_count = 0
  /\ file_size = 0
  /\ IdleUnit

SpecBcfs == InitBcfs /\ [][NextBcfs]_vars

----------------------------------------------------------------------------
(* read and check_file_type (src/src/gpx/mod.rs)                            *)

\* check_file_type matching on the first three bytes only
check_file_type_prefix(d) ==
  IF <<d[1], d[2], d[3]>> = <<66, 67, 70>> THEN "BCFS" ELSE "None"

\* check_file_type looking at the fourth byte only
check_file_type_last(d) ==
  IF d[4] = 83 THEN "BCFS" ELSE IF d[4] = 90 THEN "BCFZ" ELSE "None"

\* d holds the first bytes of the slice; indexing data[0..3] panics on less
check_file_type(d) ==
  IF <<d[1], d[2], d[3], d[4]>> = <<66, 67, 70, 83>> THEN "BCFS"
  ELSE IF <<d[1], d[2], d[3], d[4]>> = <<66, 67, 70, 90>> THEN "BCFZ"
  ELSE "None"

\* the outer match of read
Read ==
  /\ pc = "read"
  /\ IF input.len < 4
       THEN pc' = "panic" /\ UNCHANGED <<result, zdata, data>>
     ELSE IF check_file_type(input.bytes) = "BCFZ"
       THEN /\ zdata' = SliceFrom(input, 4).bytes
            /\ pc' = "decompress_bcfz"
            /\ UNCHANGED <<result, data>>
     ELSE IF check_file_type(input.bytes) = "BCFS"
       THEN /\ data' = SliceFrom(input, 4)
            /\ pc' = "decompress_bcfs"
            /\ UNCHANGED <<result, zdata>>
     ELSE /\ result' = FormatError
          /\ pc' = "done"
          /\ UNCHANGED <<zdata, data>>
  /\ UNCHANGED <<input, caller, bb, expected_decompressed_data_len, decompressed_data,
                 chunk, bcfs_data, offset, files, dir, file_data, block_count, file_size>>
  /\ UNCHANGED unitVars

\* the inner match of read, on the decompressed bytes
ReadBcfzDone ==
  /\ pc = "read_bcfz_done"
  /\ IF Len(bcfs_data) < 4
       THEN pc' = "panic" /\ UNCHANGED <<result, data>>
     ELSE IF check_file_type(bcfs_data) = "BCFS"
       THEN /\ data' = SliceFrom(SliceOf(bcfs_data), 4)
            /\ pc' = "decompress_bcfs"
            /\ UNCHANGED result
     ELSE /\ result' = FormatError
          /\ pc' = "done"
          /\ UNCHANGED data
  /\ UNCHANGED <<input, caller, bcfzVars, bcfs_data, offset, files, dir, file_data,
                 block_count, file_size>>
  /\ UNCHANGED unitVars

Next ==
  \/ Read
  \/ ReadBcfzDone
  \/ NextBcfz
  \/ NextBcfs

\* the files handed to read: the BCFZ magic and a stream, the BCFS magic and
\* an image, or another four bytes and a stream
OtherMagics == {<<66, 67, 70, 0>>, <<222, 173, 190, 239>>}

Init ==
  /\ \/ \E L \in DeclaredLens : \E cs \in ChunkSeqs : \E cut \in Cuts :
          input = SliceOf(<<66, 67, 70, 90>> \o BcfzStream(L, cs, cut))
     \/ \E S \in DirSets : \E k \in 0 .. MaxBlocks :
          \E lens \in [S -> 0 .. k] :
            /\ SumOver(lens, S) = k
            /\ \E size \in FileSizes : \E w \in [1 .. k -> BlockVals] :
                  input = [len   |-> 4 + BcfsImage(S, size, lens, w).len,
                           bytes |-> <<66, 67, 70, 83>>,
                           dirs  |-> BcfsImage(S, size, lens, w).dirs]
     \/ \E m \in OtherMagics : \E L \in DeclaredLens : \E cs \in ChunkSeqs :
          Len(cs) <= 1 /\ input = SliceOf(m \o BcfzStream(L, cs, 0))
  /\ caller = "read"
  /\ pc = "read"
  /\ result = NoResult
  /\ bcfs_data = <<>>
  /\ zdata = <<>>
  /\ IdleBcfz
  /\ IdleBcfs
  /\ IdleUnit

Spec == Init /\ [][Next]_vars

----------------------------------------------------------------------------
(* The bit stream of a slice, as the BCFZ format reads it: bit i (from 0)   *)
(* is bit 7 - i mod 8 of byte i div 8.                                      *)

StreamBit(d, i) == Shr(d[(i \div 8) + 1], 7 - (i % 8)) % 2

\* the n bits from bit index at, first bit most significant
RECURSIVE MsbValue(_, _, _)
MsbValue(d, at, n) ==
  IF n = 0 THEN 0 ELSE 2 * MsbValue(d, at, n - 1) + StreamBit(d, at + n - 1)

\* the n bits from bit index at, first bit least significant
RECURSIVE LsbValue(_, _, _)
LsbValue(d, at, n) ==
  IF n = 0 THEN 0 ELSE StreamBit(d, at) + 2 * LsbValue(d, at + 1, n - 1)

\* the declared length of a stream whose header is a non-negative i32
DeclaredLength(d) == d[1] + 256 * d[2] + 65536 * d[3] + 16777216 * d[4]

\* no read_bit call so far went past the last bit of the stream
WithinStream == bb.nread <= 8 * Len(zdata)

ReturnedOk == pc = "done" /\ result.kind = "Ok"

----------------------------------------------------------------------------
(* Claims about decompress_bcfz, checked under SpecBcfz                     *)

\* C1 (as stated): whenever decompress_bcfz returns successfully, the
\* returned buffer is exactly as long as the length declared in the header.
C1_LenEqualsDeclared ==
  ReturnedOk => Len(result.value) = DeclaredLength(zdata)

\* C1 (amended): whenever decompress_bcfz returns successfully, the returned
\* buffer is at least as long as the declared length, and it was shorter than
\* the declared length before the last chunk was appended (with no chunk at
\* all the buffer is empty and the declared length is 0).
C1_LenAtLeastDeclared ==
  ReturnedOk =>
    /\ Len(result.value) >= DeclaredLength(zdata)
    /\ IF chunk.marker = -1
         THEN result.value = <<>>
         ELSE Len(chunk.before) < DeclaredLength(zdata)

\* C1 witness: a successful return whose last chunk went past the declared length
C1_Witness ==
  /\ ReturnedOk
  /\ chunk.marker # -1
  /\ Len(result.value) > DeclaredLength(zdata)

\* C2: a loop iteration that starts with every bit of the stream consumed and
\* the output still short of the declared length ends decompress_bcfz with an
\* error.
C2_ExhaustedStreamFails ==
  [][(/\ pc = "bcfz_loop"
      /\ BcfzLoopCond(decompressed_data, expected_decompressed_data_len)
      /\ bb.nread >= 8 * Len(zdata))
     => (pc' = "done" /\ result'.kind = "Err")]_vars

\* C3: a back-reference chunk that completes reads word_size from the 4 bits
\* after the marker, first bit most significant, then offset and len from
\* word_size bits each, first bit least significant, and appends exactly
\* min(len, offset) bytes, a copy of the output from output.len - offset on;
\* the earlier output is a prefix of the new one and the copied region ends
\* at or before the old end of the output.
C3_BackReference ==
  (chunk.marker = 1 /\ chunk.ok /\ WithinStream) =>
    LET at   == chunk.at
        ws   == MsbValue(zdata, at + 1, 4)
        off  == LsbValue(zdata, at + 5, ws)
        len  == LsbValue(zdata, at + 5 + ws, ws)
        n    == Min(len, off)
        src  == Len(chunk.before) - off
    IN  /\ StreamBit(zdata, at) = 1
        /\ chunk.word_size = ws
        /\ chunk.offset = off
        /\ chunk.len = len
        /\ bb.nread = at + 5 + 2 * ws
        /\ src >= 0
        /\ src + n <= Len(chunk.before)
        /\ Len(decompressed_data) = Len(chunk.before) + n
        /\ SubSeq(decompressed_data, 1, Len(chunk.before)) = chunk.before
        /\ \A i \in 1 .. n :
             decompressed_data[Len(chunk.before) + i] = chunk.before[src + i]

\* C3 witness: a completed back-reference that asked for more bytes than its offset
C3_Witness ==
  /\ chunk.marker = 1
  /\ chunk.ok
  /\ WithinStream
  /\ chunk.offset > 0
  /\ chunk.len > chunk.offset
  /\ Len(decompressed_data) = Len(chunk.before) + chunk.offset

\* the stream of declared length N made of N chunks 'marker 0, k = 1, byte B'
LiteralStream(N, B) ==
  BcfzStream(N, [i \in 1 .. N |->
                   [marker |-> 0, payload |-> <<B>>, word_size |-> 0,
                    offset |-> 0, len |-> 0]], 0)

\* C4: a literal chunk reads its count k from the 2 bits after the marker,
\* first bit as bit 0, and appends exactly the next k bytes of the bit
\* stream, each read from the bit cursor with its first bit most significant;
\* a stream of declared length N made of N chunks 'marker 0, k = 1, byte B'
\* decompresses to N copies of B.
C4_Literal ==
  /\ (chunk.marker = 0 /\ WithinStream) =>
       LET at == chunk.at
           k  == StreamBit(zdata, at + 1) + 2 * StreamBit(zdata, at + 2)
       IN  /\ StreamBit(zdata, at) = 0
           /\ chunk.len = k
           /\ bb.nread = at + 3 + 8 * k
           /\ decompressed_data =
                chunk.before \o [i \in 1 .. k |-> MsbValue(zdata, at + 3 + 8 * (i - 1), 8)]
  /\ \A N \in 1 .. MaxChunks : \A B \in {83} :
       (zdata = LiteralStream(N, B) /\ pc = "done") =>
          result = [kind |-> "Ok", value |-> [i \in 1 .. N |-> B]]

\* C4 witness: the stream of two literal chunks of one byte 83 has been decompressed
C4_Witness ==
  /\ zdata = LiteralStream(2, 83)
  /\ pc = "done"
  /\ chunk.marker = 0
  /\ chunk.len = 1
  /\ Len(decompressed_data) = 2

\* C5: a back-reference chunk whose offset is 0 or exceeds the current output
\* length makes decompress_bcfz return a FormatError.
C5_BadOffsetIsFormatError ==
  (chunk.marker = 1 /\ (chunk.offset = 0 \/ chunk.offset > Len(chunk.before))) =>
     (pc = "done" /\ result = [kind |-> "Err", error |-> "FormatError"])

----------------------------------------------------------------------------
(* Claims about decompress_bcfs, checked under SpecBcfs                     *)

\* the words of a block table up to its first zero word
RECURSIVE TablePrefix(_)
TablePrefix(t) ==
  IF t = <<>> \/ Head(t) = 0 THEN <<>> ELSE <<Head(t)>> \o TablePrefix(Tail(t))

\* the directory entry of the sector the walk last entered
CurrentEntry == data.dirs[(dir - Len(data.bytes)) \div sector_size]

\* the declared size, an unsigned 32-bit word, is at most the bytes its
\* block table accumulates
Fits(e) == e.size >= 0 /\ e.size <= Len(TablePrefix(e.table)) * sector_size

\* every sector the table names lies inside the slice
InRange(e, d) ==
  \A i \in 1 .. Len(TablePrefix(e.table)) :
     LET b == TablePrefix(e.table)[i]
     IN  b > 0 /\ (b + 1) * sector_size <= d.len

\* the directory sectors of d whose size check passes, in ascending order
RECURSIVE ExpectedNames(_, _)
ExpectedNames(d, s) ==
  IF s * sector_size + 4 > d.len THEN <<>>
  ELSE (IF s \in DOMAIN d.dirs /\ Fits(d.dirs[s]) THEN <<d.dirs[s].name>> ELSE <<>>)
       \o ExpectedNames(d, s + 1)

\* C6: the walk examines every sector-aligned offset once, in ascending
\* order, whatever the block tables hold: when decompress_bcfs returns its
\* list, the list holds exactly one file for every directory sector whose
\* size check passes, in ascending order of the directory sectors.
C6_EveryDirectoryOnce ==
  (pc = "done" /\ result.kind = "Ok") =>
     [i \in 1 .. Len(result.value) |-> result.value[i].file_name]
       = ExpectedNames(data, 1)

\* C7: every file emitted holds the first file_size bytes of the
\* concatenation, in block-table order, of the sectors at b * 0x1000 for the
\* non-zero words b of its directory's table up to the first zero word.
C7_FileData ==
  \A i \in 1 .. Len(files) :
     LET f == files[i]
         e == data.dirs[f.file_name]
         t == TablePrefix(e.table)
     IN  /\ f.file_data.from = [j \in 1 .. Len(t) |-> t[j] * 4096]
         /\ f.file_data.len = e.size
         /\ f.file_data.len >= 0
         /\ f.file_data.len <= 4096 * Len(t)

\* C7 witness: a file of two sectors cut down to its declared size of one sector
C7_Witness ==
  \E i \in 1 .. Len(files) :
     /\ Len(files[i].file_data.from) = 2
     /\ files[i].file_data.from[1] # files[i].file_data.from[2]
     /\ files[i].file_data.len = 4096

Malformed(e, s, d) ==
  LET t == TablePrefix(e.table)
  IN  \/ ~InRange(e, d)
      \/ \E i \in 1 .. Len(t) : \E j \in 1 .. Len(t) : i < j /\ t[i] = t[j]
      \/ \E i \in 1 .. Len(t) : t[i] = s

\* C9: once the block table of a directory entry has been read, if it names
\* a sector outside the image (a negative index included), names a sector
\* twice or names its own directory sector, decompress_bcfs has returned a
\* FormatError.
C9_MalformedTableRejected ==
  (dir # 0 /\ pc # "bcfs_blocks"
     /\ Malformed(CurrentEntry, (dir - Len(data.bytes)) \div sector_size, data))
  => (pc = "done" /\ result = FormatError)

----------------------------------------------------------------------------
(* Claims about read, checked under Spec                                    *)

BCFS == <<66, 67, 70, 83>>
BCFZ == <<66, 67, 70, 90>>

Magic(bytes) == SubSeq(bytes, 1, 4)

\* C10: read dispatches on the first four bytes.  With the BCFS magic it runs
\* decompress_bcfs on data[4..] and nothing else; with the BCFZ magic it
\* decompresses data[4..] and runs decompress_bcfs on the decompressed bytes
\* after their magic only if that magic is BCFS; a payload that decompresses
\* to another magic and an input with neither magic give a FormatError, and
\* only the two accepted forms ever give a file list.
C10_ReadDispatch ==
  pc = "done" =>
    IF Magic(input.bytes) = BCFS
      THEN /\ data = [len |-> input.len - 4, bytes |-> <<>>, dirs |-> input.dirs]
           /\ zdata = <<>> /\ bb = BitBufferNew
    ELSE IF Magic(input.bytes) = BCFZ
      THEN /\ zdata = SubSeq(input.bytes, 5, Len(input.bytes))
           /\ bcfs_data = decompressed_data
           /\ Len(decompressed_data) >= 4
           /\ IF Magic(decompressed_data) = BCFS
                THEN /\ data = [len |-> Len(decompressed_data) - 4,
                                bytes |-> SubSeq(decompressed_data, 5, Len(decompressed_data)),
                                dirs |-> <<>>]
                     /\ result.kind # "none"
                ELSE /\ result = FormatError
                     /\ data = NoData
    ELSE /\ result = FormatError
         /\ data = NoData
         /\ zdata = <<>> /\ bb = BitBufferNew

\* C10 witness: a BCFZ file whose payload decompressed to a BCFS image that
\* decompress_bcfs then walked
C10_Witness ==
  /\ pc = "done"
  /\ Magic(input.bytes) = BCFZ
  /\ Magic(decompressed_data) = BCFS
  /\ result = [kind |-> "Ok", value |-> <<>>]

----------------------------------------------------------------------------
(* check_file_type called on its own (src/src/gpx/mod.rs)                   *)

\* the call check_file_type(input): indexing data[0..3] of a shorter slice
\* panics
CheckFileType ==
  /\ pc = "check_file_type"
  /\ IF Len(input) < 4
       THEN pc' = "panic" /\ UNCHANGED result
       ELSE /\ result' = [kind |-> "Option", value |-> check_file_type(input)]
            /\ pc' = "done"
  /\ UNCHANGED <<input, caller, bcfzVars, bcfs_data, bcfsVars, unitVars>>

\* the slices handed to check_file_type: at most MaxPrefixLen bytes drawn
\* from the bytes of the two magics and one other byte
MaxPrefixLen == 5

PrefixBytes == {66, 67, 70, 83, 90, 222}

InitCheckFileType ==
  /\ \E n \in 0 .. MaxPrefixLen : input \in [1 .. n -> PrefixBytes]
  /\ caller = "none"
  /\ pc = "check_file_type"
  /\ result = NoResult
  /\ bcfs_data = <<>>
  /\ zdata = <<>>
  /\ IdleBcfz
  /\ IdleBcfs
  /\ IdleUnit

SpecCheckFileType == InitCheckFileType /\ [][CheckFileType]_vars

\* C11: check_file_type returns BCFS exactly when the first four bytes are
\* 0x42 0x43 0x46 0x53, BCFZ exactly when they are 0x42 0x43 0x46 0x5A, and
\* None for every other four-byte prefix, whatever follows the prefix.
C11_CheckFileType ==
  pc = "done" =>
    /\ Len(input) >= 4
    /\ result.kind = "Option"
    /\ result.value \in {"BCFS", "BCFZ", "None"}
    /\ (result.value = "BCFS") <=> (Magic(input) = <<66, 67, 70, 83>>)
    /\ (result.value = "BCFZ") <=> (Magic(input) = <<66, 67, 70, 90>>)

\* C11 witness: a slice longer than its BCFZ magic is detected as BCFZ
C11_Witness ==
  /\ pc = "done"
  /\ Len(input) > 4
  /\ Magic(input) = <<66, 67, 70, 90>>
  /\ result = [kind |-> "Option", value |-> "BCFZ"]

----------------------------------------------------------------------------
(* BitBuffer called on its own (src/src/bitbuffer.rs): a BitBuffer over the *)
(* slice zdata and any sequence of its four reading operations.  call holds *)
(* the last operation: its name, the number of bits it was asked for, the   *)
(* number of bits asked for before it (at) and up to it (end), whether it   *)
(* returned Ok, and the value returned.                                     *)

MaxBytes == 3
MaxCount == 12
MaxBuf == 2

SliceBytes == {202, 240}
Counts == 0 .. MaxCount

NewCall == [op |-> "new", count |-> 0, at |-> 0, end |-> 0, ok |-> TRUE, value |-> 0]

\* operations run while the bits asked for so far are bits of the slice, so
\* that the last one may start at its end or run over it
BitBufferLive == pc = "bitbuffer" /\ call.end <= 8 * Len(zdata)

\* bb.read_bit()
BitReadBit ==
  /\ BitBufferLive
  /\ LET r == read_bit(bb, zdata)
     IN  /\ bb' = r.bb
         /\ call' = [op |-> "read_bit", count |-> 1, at |-> call.end,
                     end |-> call.end + 1, ok |-> TRUE, value |-> r.bit]
  /\ UNCHANGED <<input, caller, pc, result, zdata, expected_decompressed_data_len,
                 decompressed_data, chunk, bcfs_data, bcfsVars, legacyVars>>

\* bb.read_bits(count); assert!(count <= 64) panics on a larger count
BitReadBits ==
  /\ BitBufferLive
  /\ \E count \in Counts \cup {65} :
       IF count > 64
         THEN pc' = "panic" /\ UNCHANGED <<bb, call>>
         ELSE LET r == read_bits(bb, zdata, count)
              IN  /\ bb' = r.bb
                  /\ call' = [op |-> "read_bits", count |-> count, at |-> call.end,
                              end |-> call.end + count, ok |-> TRUE, value |-> r.word]
                  /\ UNCHANGED pc
  /\ UNCHANGED <<input, caller, result, zdata, expected_decompressed_data_len,
                 decompressed_data, chunk, bcfs_data, bcfsVars, legacyVars>>

\* bb.read_bits_reversed(count)
BitReadBitsReversed ==
  /\ BitBufferLive
  /\ \E count \in Counts :
       LET r == read_bits_reversed(bb, zdata, count)
       IN  /\ bb' = r.bb
           /\ call' = [op |-> "read_bits_reversed", count |-> count, at |-> call.end,
                       end |-> call.end + count, ok |-> TRUE, value |-> r.word]
  /\ UNCHANGED <<input, caller, pc, result, zdata, expected_decompressed_data_len,
                 decompressed_data, chunk, bcfs_data, bcfsVars, legacyVars>>

\* Read::read(&mut bb, buf) with a buffer of n bytes
BitRead ==
  /\ BitBufferLive
  /\ \E n \in 0 .. MaxBuf :
       LET r == read(bb, zdata, n)
       IN  /\ bb' = r.bb
           /\ call' = [op |-> "read", count |-> 8 * n, at |-> call.end,
                       end |-> call.end + 8 * n, ok |-> TRUE, value |-> r.buf]
  /\ UNCHANGED <<input, caller, pc, result, zdata, expected_decompressed_data_len,
                 decompressed_data, chunk, bcfs_data, bcfsVars, legacyVars>>

NextBitBuffer ==
  \/ BitReadBit
  \/ BitReadBits
  \/ BitReadBitsReversed
  \/ BitRead

\* BitBuffer::new(input)
InitBitBuffer ==
  /\ \E n \in 0 .. MaxBytes : input \in [1 .. n -> SliceBytes]
  /\ zdata = input
  /\ caller = "none"
  /\ pc = "bitbuffer"
  /\ result = NoResult
  /\ bcfs_data = <<>>
  /\ bb = BitBufferNew
  /\ expected_decompressed_data_len = 0
  /\ decompressed_data = <<>>
  /\ chunk = NoChunk
  /\ IdleBcfs
  /\ IdleLegacy
  /\ call = NewCall

SpecBitBuffer == InitBitBuffer /\ [][NextBitBuffer]_vars

----------------------------------------------------------------------------
(* Claims about BitBuffer, checked under SpecBitBuffer                      *)

\* the position of the buffer in the bit stream, from its fields
BitCursor(b) == 8 * b.cursor - (8 - b.bit_position)

\* the last operation took all its bits from the slice
CallWithinSlice == call.op # "new" /\ call.end <= 8 * Len(zdata)

\* C12: a read_bit call that follows k bits consumed (k < 8 * number of
\* bytes) returns bit 7 - k mod 8 of byte k div 8; on the bytes 0xCA 0xF0 the
\* sixteen bits are 1,1,0,0,1,0,1,0,1,1,1,1,0,0,0,0.
C12_ReadBitOrder ==
  (call.op = "read_bit" /\ CallWithinSlice) =>
    /\ call.value = (zdata[(call.at \div 8) + 1] \div Pow2(7 - (call.at % 8))) % 2
    /\ (Len(zdata) >= 2 /\ zdata[1] = 202 /\ zdata[2] = 240 /\ call.at < 16) =>
          call.value = <<1, 1, 0, 0, 1, 0, 1, 0, 1, 1, 1, 1, 0, 0, 0, 0>>[call.at + 1]

\* C12 witness: the read_bit call that takes the last bit of 0xCA 0xF0
C12_Witness ==
  /\ zdata = <<202, 240>>
  /\ call.op = "read_bit"
  /\ call.at = 15
  /\ call.value = 0
  /\ bb.nread = 16

\* C13: read_bits(n) consumes exactly n bits and returns the value whose bit
\* n - 1 - i is the i-th bit consumed; on 0xCA, read_bits(8) = 202 and
\* read_bits(7) = 101.
C13_ReadBits ==
  (call.op = "read_bits" /\ CallWithinSlice) =>
    /\ call.ok
    /\ BitCursor(bb) = call.at + call.count
    /\ call.value < Pow2(call.count)
    /\ \A i \in 0 .. call.count - 1 :
         (call.value \div Pow2(call.count - 1 - i)) % 2 = StreamBit(zdata, call.at + i)
    /\ (call.at = 0 /\ call.count = 8 /\ zdata[1] = 202) => call.value = 202
    /\ (call.at = 0 /\ call.count = 7 /\ zdata[1] = 202) => call.value = 101

\* C13 witness: read_bits(7) on 0xCA
C13_Witness ==
  /\ Len(zdata) >= 1
  /\ zdata[1] = 202
  /\ call.op = "read_bits"
  /\ call.at = 0
  /\ call.count = 7
  /\ call.value = 101
  /\ bb.bit_position = 7

\* the value of the n low bits of v in reverse order
RECURSIVE BitReverse(_, _)
BitReverse(v, n) ==
  IF n = 0 THEN 0 ELSE (v % 2) * Pow2(n - 1) + BitReverse(v \div 2, n - 1)

\* C14: read_bits_reversed(n) consumes exactly n bits and returns the value
\* whose bit i is the i-th bit consumed, the n-bit reversal of what
\* read_bits(n) returns at the same cursor; on 0xCA, read_bits_reversed(8) =
\* 83 and read_bits_reversed(7) = 83.
C14_ReadBitsReversed ==
  (call.op = "read_bits_reversed" /\ CallWithinSlice) =>
    /\ call.ok
    /\ BitCursor(bb) = call.at + call.count
    /\ call.value < Pow2(call.count)
    /\ \A i \in 0 .. call.count - 1 :
         (call.value \div Pow2(i)) % 2 = StreamBit(zdata, call.at + i)
    /\ call.value = BitReverse(MsbValue(zdata, call.at, call.count), call.count)
    /\ (call.at = 0 /\ call.count \in {7, 8} /\ zdata[1] = 202) => call.value = 83

\* C14 witness: read_bits_reversed(7) on 0xCA
C14_Witness ==
  /\ Len(zdata) >= 1
  /\ zdata[1] = 202
  /\ call.op = "read_bits_reversed"
  /\ call.at = 0
  /\ call.count = 7
  /\ call.value = 83
  /\ bb.bit_position = 7

\* C15: in any sequence of read_bit, read_bits, read_bits_reversed and byte
\* reads, every operation starts at the bit after the last bit consumed by
\* the operation before it and consumes exactly the bits it was asked for;
\* bit_position is within 1..8 after any read; a byte
\* read returns, byte by byte, the 8 stream bits from its cursor on, first
\* bit most significant, also when the cursor is not byte-aligned.
C15_OneBitCursor ==
  CallWithinSlice =>
    /\ BitCursor(bb) = call.end
    /\ call.end = call.at + call.count
    /\ bb.bit_position \in 1 .. 8
    /\ call.op = "read_bit" => call.value = StreamBit(zdata, call.at)
    /\ call.op = "read_bits" => call.value = MsbValue(zdata, call.at, call.count)
    /\ call.op = "read_bits_reversed" => call.value = LsbValue(zdata, call.at, call.count)
    /\ call.op = "read" =>
         /\ Len(call.value) = call.count \div 8
         /\ \A i \in 1 .. Len(call.value) :
              call.value[i] = MsbValue(zdata, call.at + 8 * (i - 1), 8)
    /\ (call.op = "read" /\ call.at = 2 /\ call.count = 16
          /\ zdata = <<202, 240, 240>>) => call.value = <<43, 195>>

\* C15 witness: the two bytes read after read_bits(2) on 0xCA 0xF0 0xF0
C15_Witness ==
  /\ zdata = <<202, 240, 240>>
  /\ call.op = "read"
  /\ call.at = 2
  /\ call.count = 16
  /\ call.value = <<43, 195>>
  /\ bb.bit_position = 2
  /\ bb.cursor = 3

\* C16: a read_bit, read_bits or read_bits_reversed that needs a bit after
\* every bit of the slice has been consumed returns an UnexpectedEof error,
\* on an empty slice too.
C16_ExhaustedReadFails ==
  (call.op \in {"read_bit", "read_bits", "read_bits_reversed"}
     /\ call.end > 8 * Len(zdata)) => ~call.ok

----------------------------------------------------------------------------
(* IoReader (src/src/legacy/io_reader.rs) over the byte slice input, of     *)
(* which io bytes are consumed.  A String is the sequence of its code       *)
(* points.  A usize that comes from a negative i32 is carried as the        *)
(* negative number: it stands for the value of at least 2^63 that the cast  *)
(* gives.  A failed read ends the parse; the reader is not used after it.   *)

MAX_STRING_SIZE == 65536

\* WINDOWS_1252 of the encoding crate: the code points of bytes 0x80 .. 0x9F
Windows1252High ==
  <<8364, 129, 8218, 402, 8222, 8230, 8224, 8225, 710, 8240, 352, 8249, 338,
    141, 381, 143, 144, 8216, 8217, 8220, 8221, 8226, 8211, 8212, 732, 8482,
    353, 8250, 339, 157, 382, 376>>

\* DEFAULT_GPENCODING.decode(buf, DecoderTrap::Replace): every byte decodes
convert_to_string(buf) ==
  [i \in 1 .. Len(buf) |->
     IF buf[i] < 128 \/ buf[i] >= 160 THEN buf[i] ELSE Windows1252High[buf[i] - 127]]

\* Read::read_exact of n bytes at position p of the slice d
read_exact(d, p, n) ==
  IF p + n <= Len(d)
    THEN [ok |-> TRUE, io |-> p + n, buf |-> SubSeq(d, p + 1, p + n)]
    ELSE [ok |-> FALSE, io |-> p, buf |-> <<>>]

read_byte(d, p) ==
  LET r == read_exact(d, p, 1)
  IN  [ok |-> r.ok, io |-> r.io, value |-> IF r.ok THEN r.buf[1] ELSE 0]

read_int(d, p) ==
  LET r == read_exact(d, p, 4)
  IN  [ok |-> r.ok, io |-> r.io,
       value |-> IF r.ok THEN LittleEndianI32(r.buf[1], r.buf[2], r.buf[3], r.buf[4])
                 ELSE 0]

StrOk(p, v) == [ok |-> TRUE, err |-> "none", io |-> p, value |-> v]
StrErr(p, e) == [ok |-> FALSE, err |-> e, io |-> p, value |-> <<>>]

\* read_string(size, length): length is [some, len]; one Read::read call
\* fills the buffer, and on a slice it falls short only at the end
read_string(d, p, size, length) ==
  IF size < 0 \/ size > MAX_STRING_SIZE THEN StrErr(p, "FormatError")
  ELSE LET need_to_read == IF ~length.some THEN size
                           ELSE IF size > 0 THEN size ELSE length.len
           read_count   == Min(need_to_read, Len(d) - p)
           buf          == SubSeq(d, p + 1, p + read_count)
       IN  IF length.some /\ length.len > need_to_read THEN StrErr(p, "FormatError")
           ELSE IF read_count < need_to_read THEN StrErr(p + read_count, "FormatError")
           ELSE StrOk(p + read_count,
                      convert_to_string(IF length.some THEN SubSeq(buf, 1, length.len)
                                        ELSE buf))

NoLength == [some |-> FALSE, len |-> 0]
SomeLength(n) == [some |-> TRUE, len |-> n]

read_byte_sized_string(d, p, size) ==
  LET len == read_byte(d, p)
  IN  IF ~len.ok THEN StrErr(len.io, "Io")
      ELSE read_string(d, len.io, size, SomeLength(len.value))

read_int_sized_string(d, p) ==
  LET size == read_int(d, p)
  IN  IF ~size.ok THEN StrErr(size.io, "Io")
      ELSE read_string(d, size.io, size.value, NoLength)

\* `self.read_int()? as usize - 1`: on 0 the subtraction overflows, which
\* panics in a build with overflow checks and wraps to usize::MAX without;
\* a negative i32 cast to usize stays above isize::MAX after the subtraction
read_int_byte_sized_string(d, p, checked) ==
  LET size == read_int(d, p)
  IN  IF ~size.ok THEN StrErr(size.io, "Io")
      ELSE IF size.value = 0 /\ checked THEN StrErr(size.io, "panic")
      ELSE read_byte_sized_string(d, size.io,
                                  IF size.value <= 0 THEN -1 ELSE size.value - 1)

\* sizes a caller passes to read_byte_sized_string
StringSizes == {0, 1, 2, MAX_STRING_SIZE, MAX_STRING_SIZE + 1}

IoCall(op, size, r) ==
  [op |-> op, size |-> size, at |-> io, ok |-> r.ok, err |-> r.err, value |-> r.value]

\* where a call leaves the parse: it goes on after Ok
IoNextPc(r) == IF r.ok THEN "io_reader" ELSE IF r.err = "panic" THEN "panic" ELSE "done"

\* io.read_byte_sized_string(size)
IoReadByteSizedString ==
  /\ pc = "io_reader"
  /\ \E size \in StringSizes :
       LET r == read_byte_sized_string(input, io, size)
       IN  /\ call' = IoCall("read_byte_sized_string", size, r)
           /\ io' = r.io
           /\ pc' = IoNextPc(r)
  /\ UNCHANGED <<input, caller, result, bcfzVars, bcfs_data, bcfsVars, songVars>>

\* io.read_int_sized_string()
IoReadIntSizedString ==
  /\ pc = "io_reader"
  /\ LET r == read_int_sized_string(input, io)
     IN  /\ call' = IoCall("read_int_sized_string", 0, r)
         /\ io' = r.io
         /\ pc' = IoNextPc(r)
  /\ UNCHANGED <<input, caller, result, bcfzVars, bcfs_data, bcfsVars, songVars>>

\* io.read_int_byte_sized_string(), in a build with or without overflow checks
IoReadIntByteSizedString ==
  /\ pc = "io_reader"
  /\ \E checked \in BOOLEAN :
       LET r == read_int_byte_sized_string(input, io, checked)
       IN  /\ call' = IoCall("read_int_byte_sized_string", 0, r)
           /\ io' = r.io
           /\ pc' = IoNextPc(r)
  /\ UNCHANGED <<input, caller, result, bcfzVars, bcfs_data, bcfsVars, songVars>>

NextIoReader ==
  \/ IoReadByteSizedString
  \/ IoReadIntSizedString
  \/ IoReadIntByteSizedString

\* the streams read: an optional 32-bit word, then at most MaxTail bytes
MaxTail == 3

IntWords ==
  {<<>>, <<0, 0, 0, 0>>, <<1, 0, 0, 0>>, <<2, 0, 0, 0>>, <<3, 0, 0, 0>>,
   <<0, 0, 1, 0>>, <<1, 0, 1, 0>>, <<2, 0, 1, 0>>, <<255, 255, 255, 255>>}

TailBytes == {0, 1, 2, 97, 128}

InitIoReader ==
  /\ \E w \in IntWords : \E n \in 0 .. MaxTail : \E t \in [1 .. n -> TailBytes] :
        input = w \o t
  /\ caller = "none"
  /\ pc = "io_reader"
  /\ result = NoResult
  /\ bcfs_data = <<>>
  /\ zdata = <<>>
  /\ IdleBcfz
  /\ IdleBcfs
  /\ IdleUnit

SpecIoReader == InitIoReader /\ [][NextIoReader]_vars

----------------------------------------------------------------------------
(* Claims about IoReader, checked under SpecIoReader                        *)

\* the 32-bit word of the input at byte offset p
InputInt(p) ==
  LittleEndianI32(input[p + 1], input[p + 2], input[p + 3], input[p + 4])

\* C17: a read_byte_sized_string(size) that succeeds, for every size
\* including 0, consumes exactly 1 + size bytes, the length byte L and size
\* payload bytes, and returns the decoding of the first L payload bytes.
C17_ByteSizedString ==
  (call.op = "read_byte_sized_string" /\ call.ok) =>
    LET L == input[call.at + 1]
    IN  /\ io = call.at + 1 + call.size
        /\ L <= call.size
        /\ call.value = convert_to_string(SubSeq(input, call.at + 2, call.at + 1 + L))

\* C18: a string read whose requested size exceeds 65536 returns a
\* FormatError without reading payload bytes and without aborting:
\* read_byte_sized_string with such a size, read_int_sized_string with a
\* prefix that is negative or above 65536, read_int_byte_sized_string with a
\* prefix that is 0, negative or above 65537.
C18_OversizeIsFormatError ==
  /\ (call.op = "read_byte_sized_string" /\ call.size > MAX_STRING_SIZE
        /\ call.at + 1 <= Len(input)) =>
       (call.err = "FormatError" /\ io = call.at + 1)
  /\ (call.op = "read_int_sized_string" /\ call.at + 4 <= Len(input)
        /\ (InputInt(call.at) < 0 \/ InputInt(call.at) > MAX_STRING_SIZE)) =>
       (call.err = "FormatError" /\ io = call.at + 4)
  /\ (call.op = "read_int_byte_sized_string" /\ call.at + 5 <= Len(input)
        /\ (InputInt(call.at) <= 0 \/ InputInt(call.at) > MAX_STRING_SIZE + 1)) =>
       (call.err = "FormatError" /\ io = call.at + 5)

----------------------------------------------------------------------------
(* GPFile::read_version (src/src/legacy/gp_base.rs)                         *)

\* "FICHIER GUITAR PRO "
BannerStem ==
  <<70, 73, 67, 72, 73, 69, 82, 32, 71, 85, 73, 84, 65, 82, 32, 80, 82, 79, 32>>

\* "FICHIER GUITAR PRO " followed by the five characters of a version
Banner(v) == BannerStem \o v

\* "Unsupported version: "
UnsupportedVersion ==
  <<85, 110, 115, 117, 112, 112, 111, 114, 116, 101, 100, 32, 118, 101, 114, 115,
    105, 111, 110, 58, 32>>

\* read_version taking the banner L4.06 for version 4.06
read_version_l406(d, p) ==
  LET s == read_byte_sized_string(d, p, 30)
  IN  IF ~s.ok THEN [ok |-> FALSE, err |-> s.err, io |-> s.io, value |-> <<>>]
      ELSE IF s.value = Banner(<<118, 51, 46, 48, 48>>)
        THEN [ok |-> TRUE, err |-> "none", io |-> s.io, value |-> "FichierGuitarProV300"]
      ELSE IF s.value = Banner(<<118, 52, 46, 48, 48>>)
        THEN [ok |-> TRUE, err |-> "none", io |-> s.io, value |-> "FichierGuitarProV400"]
      ELSE IF s.value = Banner(<<118, 52, 46, 48, 54>>)
        THEN [ok |-> TRUE, err |-> "none", io |-> s.io, value |-> "FichierGuitarProV406"]
      ELSE IF s.value = Banner(<<76, 52, 46, 48, 54>>)
        THEN [ok |-> TRUE, err |-> "none", io |-> s.io, value |-> "FichierGuitarProV406"]
      ELSE IF s.value = Banner(<<118, 53, 46, 48, 48>>)
        THEN [ok |-> TRUE, err |-> "none", io |-> s.io, value |-> "FichierGuitarProV500"]
      ELSE IF s.value = Banner(<<118, 53, 46, 49, 48>>)
        THEN [ok |-> TRUE, err |-> "none", io |-> s.io, value |-> "FichierGuitarProV510"]
      ELSE [ok |-> FALSE, err |-> "FormatError", io |-> s.io,
            value |-> UnsupportedVersion \o s.value]

\* the match of read_version on the string read
read_version(d, p) ==
  LET s == read_byte_sized_string(d, p, 30)
  IN  IF ~s.ok THEN [ok |-> FALSE, err |-> s.err, io |-> s.io, value |-> <<>>]
      ELSE IF s.value = Banner(<<118, 51, 46, 48, 48>>)
        THEN [ok |-> TRUE, err |-> "none", io |-> s.io, value |-> "FichierGuitarProV300"]
      ELSE IF s.value = Banner(<<118, 52, 46, 48, 48>>)
        THEN [ok |-> TRUE, err |-> "none", io |-> s.io, value |-> "FichierGuitarProV400"]
      ELSE IF s.value = Banner(<<118, 52, 46, 48, 54>>)
        THEN [ok |-> TRUE, err |-> "none", io |-> s.io, value |-> "FichierGuitarProV406"]
      ELSE IF s.value = Banner(<<76, 52, 46, 48, 54>>)
        THEN [ok |-> TRUE, err |-> "none", io |-> s.io, value |-> "FichierGuitarProL406"]
      ELSE IF s.value = Banner(<<118, 53, 46, 48, 48>>)
        THEN [ok |-> TRUE, err |-> "none", io |-> s.io, value |-> "FichierGuitarProV500"]
      ELSE IF s.value = Banner(<<118, 53, 46, 49, 48>>)
        THEN [ok |-> TRUE, err |-> "none", io |-> s.io, value |-> "FichierGuitarProV510"]
      ELSE [ok |-> FALSE, err |-> "FormatError", io |-> s.io,
            value |-> UnsupportedVersion \o s.value]

\* the call gp_file.read_version()
ReadVersion ==
  /\ pc = "read_version"
  /\ LET r == read_version(input, io)
     IN  /\ call' = [op |-> "read_version", size |-> 30, at |-> io, ok |-> r.ok,
                     err |-> r.err, value |-> r.value]
         /\ io' = r.io
         /\ result' = IF r.ok THEN [kind |-> "Ok", value |-> r.value]
                      ELSE [kind |-> "Err", error |-> r.err, message |-> r.value]
         /\ pc' = "done"
  /\ UNCHANGED <<input, caller, bcfzVars, bcfs_data, bcfsVars, songVars>>

\* the files handed to GPFile: a length byte, a stem, five characters of a
\* version and padding bytes up to 29, 30 or 31 bytes after the length byte
LengthBytes == {0, 23, 24, 25, 30, 31}

Stems == {BannerStem, [BannerStem EXCEPT ![1] = 102]}

VersionTexts ==
  {<<118, 51, 46, 48, 48>>, <<118, 52, 46, 48, 48>>, <<118, 52, 46, 48, 54>>,
   <<76, 52, 46, 48, 54>>, <<118, 53, 46, 48, 48>>, <<118, 53, 46, 49, 48>>,
   <<118, 53, 46, 49, 49>>, <<108, 52, 46, 48, 54>>, <<118, 50, 46, 48, 48>>}

PadBytes == {0, 32}

InitVersion ==
  /\ \E L \in LengthBytes : \E stem \in Stems : \E v \in VersionTexts :
       \E pad \in PadBytes : \E n \in 5 .. 7 :
         input = <<L>> \o stem \o v \o [i \in 1 .. n |-> pad]
  /\ caller = "none"
  /\ pc = "read_version"
  /\ result = NoResult
  /\ bcfs_data = <<>>
  /\ zdata = <<>>
  /\ IdleBcfz
  /\ IdleBcfs
  /\ IdleUnit

SpecVersion == InitVersion /\ [][ReadVersion]_vars

\* the six supported banners and their Version values
SupportedVersions ==
  {<<Banner(<<118, 51, 46, 48, 48>>), "FichierGuitarProV300">>,
   <<Banner(<<118, 52, 46, 48, 48>>), "FichierGuitarProV400">>,
   <<Banner(<<118, 52, 46, 48, 54>>), "FichierGuitarProV406">>,
   <<Banner(<<76, 52, 46, 48, 54>>), "FichierGuitarProL406">>,
   <<Banner(<<118, 53, 46, 48, 48>>), "FichierGuitarProV500">>,
   <<Banner(<<118, 53, 46, 49, 48>>), "FichierGuitarProV510">>}

\* the string that a length byte and 30 payload bytes at the head of the
\* input decode to
DecodedVersion == convert_to_string(SubSeq(input, 2, 1 + input[1]))

\* C19: read_version reads a 30-byte length-prefixed string, 31 bytes in
\* all, and maps exactly the six banners 'FICHIER GUITAR PRO v3.00', 'v4.00',
\* 'v4.06', 'L4.06', 'v5.00', 'v5.10' to six distinct Version values; every
\* other decoded string gives FormatError('Unsupported version: ...') and no
\* Version.
C19_ReadVersion ==
  (pc = "done" /\ Len(input) >= 31 /\ input[1] <= 30) =>
    /\ io = 31
    /\ \A bv \in SupportedVersions :
         (DecodedVersion = bv[1]) <=> (result = [kind |-> "Ok", value |-> bv[2]])
    /\ (\A bv \in SupportedVersions : DecodedVersion # bv[1]) =>
         result = [kind |-> "Err", error |-> "FormatError",
                   message |-> UnsupportedVersion \o DecodedVersion]
    /\ Cardinality({bv[2] : bv \in SupportedVersions}) = 6

\* C19 witness: the banner L4.06 with length byte 24 is read as its own version
C19_Witness ==
  /\ pc = "done"
  /\ input[1] = 24
  /\ DecodedVersion = Banner(<<76, 52, 46, 48, 54>>)
  /\ result = [kind |-> "Ok", value |-> "FichierGuitarProL406"]
  /\ io = 31

----------------------------------------------------------------------------
(* read_measure_headers (src/src/legacy/gp3_reader.rs) and the types of     *)
(* src/src/legacy/song.rs it builds.  A step of the parse is the record     *)
(* [ok, err, io, value]; err is "panic" where the code panics.              *)

\* flags & mask > 0 for the mask 1 << k
FlagSet(flags, k) == Shr(flags, k) % 2 = 1

\* a | b and a ^ b on u8
RECURSIVE BitOr8(_, _, _)
BitOr8(a, b, n) ==
  IF n = 0 THEN 0
  ELSE (IF a % 2 = 1 \/ b % 2 = 1 THEN 1 ELSE 0) + 2 * BitOr8(a \div 2, b \div 2, n - 1)

RECURSIVE BitXor8(_, _, _)
BitXor8(a, b, n) ==
  IF n = 0 THEN 0
  ELSE (IF a % 2 # b % 2 THEN 1 ELSE 0) + 2 * BitXor8(a \div 2, b \div 2, n - 1)

\* Default::default() of Tuplet, Duration, KeySignature and MeasureHeader
DefaultTuplet == [enters |-> 1, times |-> 1]

DurationOf(value) ==
  [value |-> value, is_dotted |-> FALSE, is_double_dotted |-> FALSE,
   tuplet |-> DefaultTuplet]

DefaultDuration == DurationOf(960)

DefaultKeySignature == [root |-> 0, signature_type |-> 0]

DefaultMeasureHeader ==
  [number |-> 0, start |-> 0,
   time_signature |-> [numerator |-> 0, denominator |-> DefaultDuration,
                       beams |-> <<0, 0, 0, 0>>],
   key_signature |-> DefaultKeySignature, tempo |-> 0, triplet_feel |-> "None",
   is_repeat_open |-> FALSE, repeat_close |-> FALSE, repeat_alternative |-> 0,
   real_start |-> 0, has_double_bar |-> FALSE, marker |-> [some |-> FALSE],
   at |-> 0]

\* the discriminants of DurationValue that an i8 can hold
DurationValuesI8 == {1, 2, 4, 8, 16, 32, 64}

Step(p, v) == [ok |-> TRUE, err |-> "none", io |-> p, value |-> v]
Fail(p, e) == [ok |-> FALSE, err |-> e, io |-> p, value |-> 0]

read_u8(d, p) ==
  LET r == read_byte(d, p) IN IF r.ok THEN Step(r.io, r.value) ELSE Fail(r.io, "Io")

read_signed_byte(d, p) ==
  LET r == read_byte(d, p)
  IN  IF r.ok THEN Step(r.io, IF r.value >= 128 THEN r.value - 256 ELSE r.value)
      ELSE Fail(r.io, "Io")

\* three bytes and one skipped
read_color(d, p) ==
  LET r == read_exact(d, p, 4)
  IN  IF r.ok THEN Step(r.io, [r |-> r.buf[1], g |-> r.buf[2], b |-> r.buf[3]])
      ELSE Fail(r.io, "Io")

read_marker(d, p, checked) ==
  LET title == read_int_byte_sized_string(d, p, checked)
      color == read_color(d, title.io)
  IN  IF ~title.ok THEN Fail(title.io, title.err)
      ELSE IF ~color.ok THEN color
      ELSE Step(color.io, [some |-> TRUE, title |-> title.value, color |-> color.value])

\* the OR of repeat_alternative over all of hs
RECURSIVE existing_alternatives_all(_)
existing_alternatives_all(hs) ==
  IF hs = <<>> THEN 0
  ELSE BitOr8(existing_alternatives_all(SubSeq(hs, 1, Len(hs) - 1)),
              hs[Len(hs)].repeat_alternative, 8)

\* the OR of repeat_alternative over hs from its last header back to, and
\* without, the last one that opens a repeat
RECURSIVE existing_alternatives(_)
existing_alternatives(hs) ==
  IF hs = <<>> \/ hs[Len(hs)].is_repeat_open THEN 0
  ELSE BitOr8(existing_alternatives(SubSeq(hs, 1, Len(hs) - 1)),
              hs[Len(hs)].repeat_alternative, 8)

\* `1 << value - 1 ^ existing_alternatives` on u8: value - 1 overflows on 0
\* and the shift overflows from 8 on; with overflow checks either panics,
\* without them the difference wraps and the shift count is taken modulo 8
read_repeat_alternative(d, p, hs, checked) ==
  LET value == read_u8(d, p)
      shift == (value.value + 255) % 256
  IN  IF ~value.ok THEN value
      ELSE IF checked /\ (value.value = 0 \/ shift >= 8) THEN Fail(value.io, "panic")
      ELSE Step(value.io, BitXor8(Pow2(shift % 8), existing_alternatives(hs), 8))

\* the first step that failed, or the last step
RECURSIVE FirstFailure(_)
FirstFailure(steps) ==
  IF Len(steps) = 1 \/ ~Head(steps).ok THEN Head(steps) ELSE FirstFailure(Tail(steps))

\* `previous` when the headers hs have been pushed: the default header, then a
\* clone of the last one pushed
previous_header_first(hs) == IF hs = <<>> THEN DefaultMeasureHeader ELSE hs[1]

previous_header(hs) == IF hs = <<>> THEN DefaultMeasureHeader ELSE hs[Len(hs)]

\* the denominator with its byte taken as an exponent
read_denominator_exponent(d, p, f, previous) ==
  LET byte == read_signed_byte(d, p)
  IN  IF ~FlagSet(f, 1) THEN Step(p, previous.time_signature.denominator)
      ELSE IF ~byte.ok THEN byte
      ELSE IF byte.value \notin 0 .. 7 THEN Fail(byte.io, "panic")
      ELSE Step(byte.io, DurationOf(Pow2(byte.value)))

\* the denominator of a pass whose flag byte is f, read at p: a byte that is
\* no DurationValue fails expect("Unknown duration")
read_denominator(d, p, f, previous) ==
  LET byte == read_signed_byte(d, p)
  IN  IF ~FlagSet(f, 1) THEN Step(p, previous.time_signature.denominator)
      ELSE IF ~byte.ok THEN byte
      ELSE IF byte.value \notin DurationValuesI8 THEN Fail(byte.io, "panic")
      ELSE Step(byte.io, DurationOf(byte.value))

\* the key signature of a pass whose flag byte is f, read at p
read_key_signature(d, p, f, number, previous) ==
  LET root == read_signed_byte(d, p)
      signature_type == read_signed_byte(d, root.io)
  IN  IF FlagSet(f, 6)
        THEN IF ~root.ok THEN root
             ELSE IF ~signature_type.ok THEN signature_type
             ELSE Step(signature_type.io,
                       [root |-> root.value, signature_type |-> signature_type.value])
      ELSE IF number > 1 THEN Step(p, previous.key_signature)
      ELSE Step(p, DefaultKeySignature)

SongTempo == 120

\* One pass of `for number in 1..measure_count + 1`.  Each local of the loop
\* body is bound once, in the order of the code, as the member of a
\* one-element set; a pass that fails leaves at the first failure.  The field
\* at of a header keeps the offset of its flag byte.
ReadMeasureHeader ==
  /\ pc = "read_measure_headers"
  /\ Len(headers) < call.measure_count
  /\ \E number \in {Len(headers) + 1} :
     \E previous \in {previous_header(headers)} :
     \E flags \in {read_u8(input, io)} :
     \E numerator \in
          {IF FlagSet(flags.value, 0) THEN read_signed_byte(input, flags.io)
           ELSE Step(flags.io, previous.time_signature.numerator)} :
     \E denominator \in
          {read_denominator(input, numerator.io, flags.value, previous)} :
     \E repeat_close \in
          {IF FlagSet(flags.value, 3) THEN read_signed_byte(input, denominator.io)
           ELSE Step(denominator.io, 0)} :
     \E repeat_alternative \in
          {IF FlagSet(flags.value, 4)
             THEN read_repeat_alternative(input, repeat_close.io, headers,
                                          call.overflow_checks)
           ELSE Step(repeat_close.io, 0)} :
     \E marker \in
          {IF FlagSet(flags.value, 5)
             THEN read_marker(input, repeat_alternative.io, call.overflow_checks)
           ELSE Step(repeat_alternative.io, [some |-> FALSE])} :
     \E key_signature \in
          {read_key_signature(input, marker.io, flags.value, number, previous)} :
     \E last \in
          {FirstFailure(<<flags, numerator, denominator, repeat_close,
                          repeat_alternative, marker, key_signature>>)} :
       /\ io' = last.io
       /\ IF last.ok
            THEN /\ headers' = Append(headers,
                      [number |-> number, start |-> 960,
                       time_signature |-> [numerator |-> numerator.value,
                                           denominator |-> denominator.value,
                                           beams |-> <<0, 0, 0, 0>>],
                       key_signature |-> key_signature.value,
                       tempo |-> SongTempo, triplet_feel |-> "None",
                       is_repeat_open |-> FlagSet(flags.value, 2),
                       repeat_close |-> repeat_close.value > 0,
                       repeat_alternative |-> repeat_alternative.value,
                       real_start |-> -1,
                       has_double_bar |-> FlagSet(flags.value, 7),
                       marker |-> marker.value,
                       at |-> io])
                 /\ UNCHANGED <<pc, result>>
            ELSE IF last.err = "panic"
              THEN /\ pc' = "panic"
                   /\ UNCHANGED <<headers, result>>
              ELSE /\ pc' = "done"
                   /\ result' = [kind |-> "Err", error |-> last.err]
                   /\ UNCHANGED headers
  /\ UNCHANGED <<input, caller, zdata, bb, expected_decompressed_data_len,
                 decompressed_data, chunk, bcfs_data, data, offset, files, dir,
                 file_data, block_count, file_size, call, channels, tracks>>

\* The range is exhausted: Ok(measure_headers)
ReadMeasureHeadersReturn ==
  /\ pc = "read_measure_headers"
  /\ Len(headers) = call.measure_count
  /\ pc' = "done"
  /\ result' = [kind |-> "Ok", value |-> headers]
  /\ UNCHANGED <<input, caller, zdata, bb, expected_decompressed_data_len,
                 decompressed_data, chunk, bcfs_data, data, offset, files, dir,
                 file_data, block_count, file_size, call, io, songVars>>

NextMeasureHeaders == ReadMeasureHeader \/ ReadMeasureHeadersReturn

\* Streams of measure headers: a flag byte followed, in the order of the
\* format, by the fields its bits announce.  Variant 3 carries the values the
\* format does not allow (a denominator that is no duration, alternative 0,
\* a marker title of integer length 0), variant 4 the denominator 2 and the
\* alternative 8.
MaxHeaders == 3

EncodeHeader(f, v) ==
  <<f>>
  \o (IF ~FlagSet(f, 0) THEN <<>> ELSE <<(<<4, 3, 255, 4>>)[v]>>)
  \o (IF ~FlagSet(f, 1) THEN <<>> ELSE <<(<<4, 8, 3, 2>>)[v]>>)
  \o (IF ~FlagSet(f, 3) THEN <<>> ELSE <<(<<2, 0, 255, 2>>)[v]>>)
  \o (IF ~FlagSet(f, 4) THEN <<>> ELSE <<(<<1, 2, 0, 8>>)[v]>>)
  \o (IF ~FlagSet(f, 5) THEN <<>>
      ELSE (<< <<1, 0, 0, 0, 0>>, <<2, 0, 0, 0, 1, 97>>, <<0, 0, 0, 0, 0>>,
               <<1, 0, 0, 0, 0>> >>)[v]
           \o <<255, 128, 0, 0>>)
  \o (IF ~FlagSet(f, 6) THEN <<>>
      ELSE (<< <<1, 0>>, <<255, 1>>, <<0, 255>>, <<1, 0>> >>)[v])

HeaderChoices ==
  {<<0, 1>>, <<1, 1>>, <<2, 2>>, <<2, 3>>, <<2, 4>>, <<4, 1>>, <<8, 1>>, <<16, 1>>,
   <<16, 2>>, <<16, 3>>, <<16, 4>>, <<20, 2>>, <<32, 2>>, <<32, 3>>, <<64, 2>>, <<67, 1>>, <<67, 2>>, <<96, 1>>, <<128, 1>>}

\* the streams of n headers
RECURSIVE EncodeHeaders(_)
EncodeHeaders(n) ==
  IF n = 0 THEN {<<>>}
  ELSE {bytes \o EncodeHeader(c[1], c[2]) :
          bytes \in EncodeHeaders(n - 1), c \in HeaderChoices}

InitMeasureHeaders ==
  /\ \E n \in 0 .. MaxHeaders : \E bytes \in EncodeHeaders(n) :
       \E cut \in Cuts : \E checked \in BOOLEAN :
         /\ cut <= Len(bytes)
         /\ input = SubSeq(bytes, 1, Len(bytes) - cut)
         /\ call = [op |-> "read_measure_headers", measure_count |-> n,
                    overflow_checks |-> checked]
  /\ caller = "none"
  /\ pc = "read_measure_headers"
  /\ result = NoResult
  /\ bcfs_data = <<>>
  /\ zdata = <<>>
  /\ IdleBcfz
  /\ IdleBcfs
  /\ IdleLegacy

SpecMeasureHeaders == InitMeasureHeaders /\ [][NextMeasureHeaders]_vars

\* the flag byte of header k, as it stands in the stream
FlagByte(k) == input[headers[k].at + 1]

\* C20: every header after the first has the numerator of the header before
\* it when bit 0x01 of its flag byte is clear, the denominator of the header
\* before it when bit 0x02 is clear and the key signature of the header before
\* it when bit 0x40 is clear; the first header has numerator 0, the quarter
\* duration and the key signature (0, 0) for the fields whose bit is clear.
C20_HeaderInheritance ==
  pc \in {"read_measure_headers", "done", "panic"} /\ call.op = "read_measure_headers" =>
    \A k \in 1 .. Len(headers) :
      LET h == headers[k]
          f == FlagByte(k)
      IN  /\ f % 2 = 0 =>
                h.time_signature.numerator =
                  IF k > 1 THEN headers[k - 1].time_signature.numerator ELSE 0
          /\ (f \div 2) % 2 = 0 =>
                h.time_signature.denominator =
                  IF k > 1 THEN headers[k - 1].time_signature.denominator
                  ELSE [value |-> 960, is_dotted |-> FALSE, is_double_dotted |-> FALSE,
                        tuplet |-> [enters |-> 1, times |-> 1]]
          /\ (f \div 64) % 2 = 0 =>
                h.key_signature =
                  IF k > 1 THEN headers[k - 1].key_signature
                  ELSE [root |-> 0, signature_type |-> 0]

\* a header with flag byte 0 follows two headers that set 4/4 in key (1, 0)
\* and then 3/8 in key (-1, 1), and the call has returned
C20_Witness ==
  /\ pc = "done"
  /\ call.op = "read_measure_headers"
  /\ result.kind = "Ok"
  /\ Len(headers) = 3
  /\ FlagByte(1) = 67 /\ FlagByte(2) = 67 /\ FlagByte(3) = 0
  /\ headers[1].time_signature.numerator = 4
  /\ headers[3].time_signature.numerator = 3
  /\ headers[3].time_signature.denominator.value = 8
  /\ headers[3].key_signature = [root |-> -1, signature_type |-> 1]

----------------------------------------------------------------------------
(* Duration::time (src/src/legacy/song.rs), called on its own.             *)

\* the variables of the container readers, which the functions of the
\* legacy reader leave alone
gpxVars ==
  <<caller, zdata, bb, expected_decompressed_data_len, decompressed_data,
    chunk, bcfs_data, data, offset, files, dir, file_data, block_count,
    file_size>>

IdleGpx ==
  /\ caller = "none"
  /\ bcfs_data = <<>>
  /\ zdata = <<>>
  /\ IdleBcfz
  /\ IdleBcfs

\* the discriminants of DurationValue
DurationValues == {960, 1, 2, 4, 8, 16, 32, 64, 128}

\* the tuplets read_duration can build, as <<enters, times>>
TupletTable ==
  {<<3, 2>>, <<5, 4>>, <<6, 4>>, <<7, 4>>, <<9, 8>>, <<10, 8>>, <<11, 8>>, <<12, 8>>}

TupletOf(t) == [enters |-> t[1], times |-> t[2]]

\* `result += result / 4 * 3` on usize
double_dotted(ticks) == ticks + (ticks \div 4) * 3

\* Duration::time.  The f64 product 960.0 * (4.0 / value) is exact for the
\* powers of two and is 4.0 for value 960, so its cast to usize is the
\* integer quotient.
duration_time(d) ==
  LET base == (960 * 4) \div d.value
      dotted == IF d.is_dotted THEN base + base \div 2 ELSE base
      doubled == IF d.is_double_dotted THEN double_dotted(dotted) ELSE dotted
  IN  (doubled * d.tuplet.times) \div d.tuplet.enters

DurationTime ==
  /\ pc = "time"
  /\ pc' = "done"
  /\ result' = [kind |-> "usize", value |-> duration_time(call.duration)]
  /\ UNCHANGED <<input, call, legacyVars, gpxVars>>

InitDuration ==
  /\ \E value \in DurationValues : \E is_dotted \in BOOLEAN :
       \E is_double_dotted \in BOOLEAN : \E t \in TupletTable \cup {<<1, 1>>} :
         call = [op |-> "time",
                 duration |-> [value |-> value, is_dotted |-> is_dotted,
                               is_double_dotted |-> is_double_dotted,
                               tuplet |-> TupletOf(t)]]
  /\ input = <<>>
  /\ pc = "time"
  /\ result = NoResult
  /\ IdleGpx
  /\ IdleLegacy

SpecDuration == InitDuration /\ [][DurationTime]_vars

\* the exact tick count of a duration is ExactNum / ExactDen
ExactNum(d) ==
  960 * 4 * (IF d.is_dotted THEN 3 ELSE 1) * (IF d.is_double_dotted THEN 7 ELSE 1)
  * d.tuplet.times

ExactDen(d) ==
  d.value * (IF d.is_dotted THEN 2 ELSE 1) * (IF d.is_double_dotted THEN 4 ELSE 1)
  * d.tuplet.enters

\* C21: for the values 1, 2, 4, ..., 128, every combination of dots and every
\* tuplet of the table, time() is 960 * 4 / value, times 1.5 if dotted, times
\* 1.75 if double dotted, times tuplet.times / tuplet.enters, to within less
\* than one tick; a quarter is 960, a dotted quarter 1440 and an eighth in a
\* (3, 2) tuplet 320.
C21_DurationTime ==
  pc = "done" /\ call.op = "time" /\ call.duration.value # 960 =>
    LET d == call.duration
        n == ExactNum(d)
        m == ExactDen(d) * result.value
    IN  /\ n - m < ExactDen(d)
        /\ m - n < ExactDen(d)
        /\ d = [value |-> 4, is_dotted |-> FALSE, is_double_dotted |-> FALSE,
                tuplet |-> [enters |-> 1, times |-> 1]] => result.value = 960
        /\ d = [value |-> 4, is_dotted |-> TRUE, is_double_dotted |-> FALSE,
                tuplet |-> [enters |-> 1, times |-> 1]] => result.value = 1440
        /\ d = [value |-> 8, is_dotted |-> FALSE, is_double_dotted |-> FALSE,
                tuplet |-> [enters |-> 3, times |-> 2]] => result.value = 320

----------------------------------------------------------------------------
(* read_duration (src/src/legacy/gp3_reader.rs), called on its own.        *)

\* IoReader::read_int as a step of a parse
read_int_step(d, p) ==
  LET r == read_int(d, p) IN IF r.ok THEN Step(r.io, r.value) ELSE Fail(r.io, "Io")

\* the arms of `match tuplet_int`: the table, and panic! for the rest
read_tuplet(d, p) ==
  LET tuplet_int == read_int_step(d, p)
  IN  IF ~tuplet_int.ok THEN tuplet_int
      ELSE IF \E t \in TupletTable : t[1] = tuplet_int.value
        THEN Step(tuplet_int.io,
                  TupletOf(CHOOSE t \in TupletTable : t[1] = tuplet_int.value))
      ELSE Fail(tuplet_int.io, "panic")

\* read_duration.  `1 << (byte + 2)` is an i32 shifted by an i8: with overflow
\* checks the sum must stay an i8 and the shift lie in 0..31, without them
\* the sum wraps and the shift is taken modulo 32.  value.into() panics on a
\* power of two that is no DurationValue, after the tuplet has been read.
read_duration(d, p, flags, checked) ==
  LET byte == read_signed_byte(d, p)
      sum == byte.value + 2
      shift == (sum + 256) % 32
      tuplet == IF FlagSet(flags, 5) THEN read_tuplet(d, byte.io)
                ELSE Step(byte.io, DefaultTuplet)
  IN  IF ~byte.ok THEN byte
      ELSE IF checked /\ sum \notin 0 .. 31 THEN Fail(byte.io, "panic")
      ELSE IF ~tuplet.ok THEN tuplet
      ELSE IF shift > 7 THEN Fail(tuplet.io, "panic")
      ELSE Step(tuplet.io,
                [value |-> Pow2(shift), is_dotted |-> FlagSet(flags, 0),
                 is_double_dotted |-> FALSE, tuplet |-> tuplet.value])

ReadDuration ==
  /\ pc = "read_duration"
  /\ \E r \in {read_duration(input, io, call.flags, call.overflow_checks)} :
       /\ io' = r.io
       /\ pc' = IF r.err = "panic" THEN "panic" ELSE "done"
       /\ result' = IF r.ok THEN [kind |-> "Ok", value |-> r.value]
                    ELSE IF r.err = "panic" THEN NoResult
                    ELSE [kind |-> "Err", error |-> r.err]
  /\ UNCHANGED <<input, call, songVars, gpxVars>>

DurationBytes == {253, 254, 255, 0, 1, 2, 5, 6, 126}

TupletInts == {3, 5, 6, 7, 9, 10, 11, 12, 13, 0, 4, 255}

BeatFlags == {0, 1, 32, 33}

InitReadDuration ==
  /\ \E b \in DurationBytes : \E t \in TupletInts : \E flags \in BeatFlags :
       \E cut \in Cuts : \E checked \in BOOLEAN :
         /\ input = SubSeq(<<b, t, 0, 0, 0>>, 1, 5 - 4 * cut)
         /\ call = [op |-> "read_duration", flags |-> flags,
                    overflow_checks |-> checked]
  /\ pc = "read_duration"
  /\ result = NoResult
  /\ IdleGpx
  /\ IdleLegacy

SpecReadDuration == InitReadDuration /\ [][ReadDuration]_vars

\* C22: on a stream that holds a duration byte -2..5 and four more bytes,
\* read_duration with flag 0x20 set reads the 32-bit code after the duration
\* byte and returns the tuplet (3,2), (5,4), (6,4), (7,4), (9,8), (10,8),
\* (11,8), (12,8) for the codes 3, 5, 6, 7, 9, 10, 11, 12 and a FormatError
\* for any other code; with flag 0x20 clear it consumes the duration byte
\* alone and the tuplet is (1,1).
C22_ReadDurationTuplet ==
  (/\ pc \in {"done", "panic"}
   /\ call.op = "read_duration"
   /\ Len(input) = 5
   /\ (input[1] + 2) % 256 \in 0 .. 7) =>
      LET code == InputInt(1)
          pairs == {<<3, 2>>, <<5, 4>>, <<6, 4>>, <<7, 4>>,
                    <<9, 8>>, <<10, 8>>, <<11, 8>>, <<12, 8>>}
      IN  IF (call.flags \div 32) % 2 = 0
            THEN /\ pc = "done" /\ result.kind = "Ok"
                 /\ io = 1
                 /\ result.value.tuplet = [enters |-> 1, times |-> 1]
          ELSE IF \E q \in pairs : q[1] = code
            THEN /\ pc = "done" /\ result.kind = "Ok"
                 /\ io = 5
                 /\ \E q \in pairs :
                      /\ q[1] = code
                      /\ result.value.tuplet = [enters |-> q[1], times |-> q[2]]
          ELSE /\ pc = "done" /\ result.kind = "Err"
               /\ result.error = "FormatError"

----------------------------------------------------------------------------
(* read_tracks, read_channel and the end of read                            *)
(* (src/src/legacy/gp3_reader.rs); Channel is of src/src/legacy/song.rs.    *)

DEFAULT_PERCUSSION_CHANNEL == 9

is_percussion_channel(channel) == channel.channel % 16 = DEFAULT_PERCUSSION_CHANNEL

I32_MIN == -2147483647 - 1

\* `x - 1` on i32: on i32::MIN it panics with overflow checks and wraps to
\* i32::MAX without
minus_one(p, x, checked) ==
  IF x # I32_MIN THEN Step(p, x - 1)
  ELSE IF checked THEN Fail(p, "panic")
  ELSE Step(p, 2147483647)

\* the track channel after the two fix-ups: `effect_channel as u8` keeps the
\* low byte of the i32
fix_channel(track_channel, effect_channel) ==
  [track_channel EXCEPT
     !.instrument = IF @ < 0 THEN 0 ELSE @,
     !.effect_channel =
        IF is_percussion_channel(track_channel) THEN @
        ELSE ((effect_channel % 256) + 256) % 256]

\* read_channel on the bank chans: the value is the index, 0-based, and
\* channels the bank it leaves.  A negative index stands for its cast to
\* usize, which no bank length exceeds.
read_channel(d, p, chans, checked) ==
  LET wire_index == read_int_step(d, p)
      index == minus_one(wire_index.io, wire_index.value, checked)
      wire_effect == read_int_step(d, index.io)
      effect_channel == minus_one(wire_effect.io, wire_effect.value, checked)
      failed == FirstFailure(<<wire_index, index, wire_effect, effect_channel>>)
  IN  IF ~failed.ok THEN [failed EXCEPT !.value = 0] @@ [channels |-> chans]
      ELSE IF index.value >= 0 /\ index.value < Len(chans)
        THEN Step(effect_channel.io, index.value)
             @@ [channels |->
                   [chans EXCEPT ![index.value + 1] =
                      fix_channel(@, effect_channel.value)]]
      ELSE Fail(effect_channel.io, "panic") @@ [channels |-> chans]

\* the seven tunings, of which the first string_count make a string
read_strings(d, p, string_count) ==
  LET r == read_exact(d, p, 28)
      kept == IF string_count < 0 THEN 0 ELSE Min(string_count, 7)
  IN  IF ~r.ok THEN Fail(r.io, "Io")
      ELSE Step(r.io,
             [n \in 1 .. kept |->
                [string_number |-> n,
                 tuning |-> LittleEndianI32(r.buf[4 * n - 3], r.buf[4 * n - 2],
                                            r.buf[4 * n - 1], r.buf[4 * n])]])

\* a Result<String> as a step of a parse
string_step(r) == IF r.ok THEN Step(r.io, r.value) ELSE Fail(r.io, r.err)

\* One pass of `for number in 1..track_count + 1` in read_tracks, each local
\* bound once in the order of the code
ReadTrack ==
  /\ pc = "read_tracks"
  /\ Len(tracks) < call.track_count
  /\ \E number \in {Len(tracks) + 1} :
     \E flags \in {read_u8(input, io)} :
     \E name \in {string_step(read_byte_sized_string(input, flags.io, 40))} :
     \E string_count \in {read_int_step(input, name.io)} :
     \E strings \in {read_strings(input, string_count.io, string_count.value)} :
     \E port \in {read_int_step(input, strings.io)} :
     \E channel_index \in
          {read_channel(input, port.io, channels, call.overflow_checks)} :
     \E fret_count \in {read_int_step(input, channel_index.io)} :
     \E offeset \in {read_int_step(input, fret_count.io)} :
     \E color \in {read_color(input, offeset.io)} :
     \E last \in
          {FirstFailure(<<flags, name, string_count, strings, port,
                          [f \in {"ok", "err", "io", "value"} |-> channel_index[f]],
                          fret_count, offeset, color>>)} :
       /\ io' = last.io
       /\ channels' = IF FirstFailure(<<flags, name, string_count, strings, port>>).ok
                        THEN channel_index.channels ELSE channels
       /\ IF last.ok
            THEN /\ tracks' = Append(tracks,
                      [number |-> number,
                       is_percussion_track |->
                         \/ FlagSet(flags.value, 0)
                         \/ channel_index.channels[channel_index.value + 1].channel = 9,
                       is12_stringed_guitar_track |-> FlagSet(flags.value, 1),
                       is_banjo_track |-> FlagSet(flags.value, 2),
                       name |-> name.value,
                       strings |-> strings.value,
                       port |-> port.value,
                       channel_index |-> channel_index.value,
                       fret_count |-> fret_count.value,
                       offeset |-> offeset.value,
                       color |-> color.value,
                       at |-> io])
                 /\ UNCHANGED <<pc, result>>
            ELSE IF last.err = "panic"
              THEN /\ pc' = "panic"
                   /\ UNCHANGED <<tracks, result>>
              ELSE /\ pc' = "done"
                   /\ result' = [kind |-> "Err", error |-> last.err]
                   /\ UNCHANGED tracks
  /\ UNCHANGED <<input, call, headers, gpxVars>>

\* Ok(tracks), which read receives at `let tracks = read_tracks(..)?`
ReadTracksReturn ==
  /\ pc = "read_tracks"
  /\ Len(tracks) >= call.track_count
  /\ pc' = "read_song"
  /\ UNCHANGED <<input, result, call, legacyVars, gpxVars>>

\* the end of read: the Song is built and returned
ReadSong ==
  /\ pc = "read_song"
  /\ pc' = "done"
  /\ result' = [kind |-> "Ok",
                value |-> [channels |-> channels, measure_headers |-> headers,
                           tracks |-> tracks]]
  /\ UNCHANGED <<input, call, legacyVars, gpxVars>>

NextTracks == ReadTrack \/ ReadTracksReturn \/ ReadSong

\* the channel bank as read_midi_channels leaves it, with instrument
\* `even` on the even indices and `odd` on the odd ones
ChannelCount == 64

Bank(even, odd) ==
  [i \in 1 .. ChannelCount |->
     [channel |-> i - 1, effect_channel |-> i - 1,
      instrument |-> IF (i - 1) % 2 = 0 THEN even ELSE odd,
      volume |-> 0, balance |-> 0, chorus |-> 0, reverb |-> 0, phaser |-> 0,
      tremolo |-> 0]]

\* the four bytes of an i32, little-endian
IntBytes(n) ==
  LET m == IF n >= 0 THEN n ELSE (n + 2147483647) + 1
  IN  <<m % 256, (m \div 256) % 256, (m \div 65536) % 256,
        (m \div 16777216) + (IF n >= 0 THEN 0 ELSE 128)>>

\* a track record: flag byte, 40-wide name of name_len letters, string
\* count, seven tunings, port, channel pair, fret count, capo offset, colour
EncodeTrack(flags, name_len, string_count, channel, effect) ==
  <<flags, name_len>> \o [i \in 1 .. 40 |-> IF i <= name_len THEN 97 ELSE 0]
  \o IntBytes(string_count)
  \o IntBytes(64) \o IntBytes(59) \o IntBytes(55) \o IntBytes(50)
  \o IntBytes(45) \o IntBytes(40) \o IntBytes(-1)
  \o IntBytes(1) \o IntBytes(channel) \o IntBytes(effect)
  \o IntBytes(24) \o IntBytes(0) \o <<255, 0, 0, 0>>

MaxTracks == 2

TrackChoices ==
  {<<0, 2, 6, 1, 1>>, <<0, 0, 7, 1, 11>>, <<1, 2, 4, 2, 1>>, <<0, 2, 6, 10, 1>>,
   <<0, 2, 6, 26, 5>>, <<2, 2, 8, 64, 64>>, <<0, 2, 6, 1, 0>>, <<0, 2, 6, 2, 257>>,
   <<0, 2, 6, 3, I32_MIN>>, <<0, 2, 6, 0, 1>>, <<0, 2, 6, 65, 1>>,
   <<0, 2, 6, -1, 1>>, <<0, 2, 6, I32_MIN, 1>>, <<0, 41, 6, 1, 1>>}

\* the streams of n track records
RECURSIVE EncodeTracks(_)
EncodeTracks(n) ==
  IF n = 0 THEN {<<>>}
  ELSE {bytes \o EncodeTrack(c[1], c[2], c[3], c[4], c[5]) :
          bytes \in EncodeTracks(n - 1), c \in TrackChoices}

\* read at `let tracks = read_tracks(&mut io, track_count, &mut channels)?`,
\* the stream being what is left of the file from there on
InitTracks ==
  /\ \E n \in 0 .. MaxTracks : \E bytes \in EncodeTracks(n) :
       \E cut \in Cuts : \E checked \in BOOLEAN :
         \E instruments \in {<<-1, 24>>, <<25, -1>>} :
           /\ cut <= Len(bytes)
           /\ input = SubSeq(bytes, 1, Len(bytes) - cut)
           /\ channels = Bank(instruments[1], instruments[2])
           /\ call = [op |-> "read_tracks", track_count |-> n,
                      overflow_checks |-> checked, channels |-> channels]
  /\ pc = "read_tracks"
  /\ result = NoResult
  /\ IdleGpx
  /\ io = 0
  /\ headers = <<>>
  /\ tracks = <<>>

SpecTracks == InitTracks /\ [][NextTracks]_vars

\* the wire channel index and the wire effect index of the track record that
\* starts at offset p
WireChannel(p) == InputInt(p + 78)
WireEffect(p) == InputInt(p + 82)

\* the bank after any track reads: percussion channels keep their effect
\* channel, every channel keeps its number, and a channel no track names is
\* as it was at entry
BankKept ==
  \A n \in 0 .. 63 :
    /\ n % 16 = 9 => channels[n + 1].effect_channel = n
    /\ channels[n + 1].channel = n
    /\ (\A k \in 1 .. Len(tracks) : WireChannel(tracks[k].at) # n + 1) =>
          channels[n + 1] = call.channels[n + 1]

\* C23: a track read that reaches read_channel with wire channel index c in
\* 1..64 and wire effect index e changes channels[c-1] alone: its instrument
\* becomes max(instrument, 0) and its effect_channel becomes e - 1 unless
\* (c-1) mod 16 = 9, in which case it is left as it was.  After any sequence
\* of track reads the percussion channels still have effect_channel = n, every
\* channel's number is its index, and unreferenced channels are unchanged.
C23_ReadChannel ==
  [][(/\ pc = "read_tracks"
      /\ call.op = "read_tracks"
      /\ Len(tracks) < call.track_count
      /\ Len(input) >= io + 86
      /\ input[io + 2] <= 40
      /\ WireChannel(io) \in 1 .. 64) =>
        LET c == WireChannel(io)
            e == WireEffect(io)
        IN  /\ pc' # "panic"
            /\ \A n \in 1 .. 64 :
                 IF n # c THEN channels'[n] = channels[n]
                 ELSE /\ channels'[n].instrument =
                           (IF channels[n].instrument < 0 THEN 0
                            ELSE channels[n].instrument)
                      /\ IF (c - 1) % 16 = 9
                           THEN channels'[n].effect_channel = channels[n].effect_channel
                           ELSE channels'[n].effect_channel + 1 = e
                      /\ channels'[n].channel = channels[n].channel
            /\ (tracks' # tracks => BankKept')]_vars

----------------------------------------------------------------------------
(* Termination of decompress_bcfs                                           *)

\* decompress_bcfs runs on one thread and never waits: while a step is
\* possible, one is taken
FairBcfs == InitBcfs /\ [][NextBcfs]_vars /\ WF_vars(NextBcfs)

\* C24: decompress_bcfs terminates on every input, also when a block table
\* names a sector at or before its own directory sector: every run returns
\* or panics, unless it has emitted MaxFiles files by then.
C24_BcfsTerminates == <>(pc \in {"done", "panic"} \/ Len(files) >= MaxFiles)

----------------------------------------------------------------------------
(* Claims on the fields of a measure header                                 *)

\* the offset of the field that bit k of the flag byte of header h
\* announces: the fields of the lower bits that carry a byte come first
FieldOffset(h, k) ==
  LET f == input[h.at + 1]
  IN  h.at + 1 + Cardinality({j \in {0, 1, 3, 4} : j < k /\ (f \div Pow2(j)) % 2 = 1})

\* the headers before header k that follow the last repeat-open header
\* before it
SinceRepeatOpen(k) ==
  {j \in 1 .. k - 1 : \A i \in j .. k - 1 : (FlagByte(i) \div 4) % 2 = 0}

\* C25: a header whose flag bit 0x10 is set with byte value v in 1..8 has
\* repeat_alternative = (1 << (v - 1)) XOR E, E being the OR of
\* repeat_alternative over the earlier headers back to, and without, the
\* last one with is_repeat_open; a header whose bit 0x10 is clear has
\* repeat_alternative 0.
C25_RepeatAlternative ==
  call.op = "read_measure_headers" =>
    \A k \in 1 .. Len(headers) :
      LET h == headers[k]
          v == input[FieldOffset(h, 4) + 1]
      IN  IF (FlagByte(k) \div 16) % 2 = 0 THEN h.repeat_alternative = 0
          ELSE v \in 1 .. 8 =>
                 /\ h.repeat_alternative \in 0 .. 255
                 /\ \A b \in 0 .. 7 :
                      ((h.repeat_alternative \div Pow2(b)) % 2 = 1) =
                        ((b = v - 1) #
                         (\E j \in SinceRepeatOpen(k) :
                            (headers[j].repeat_alternative \div Pow2(b)) % 2 = 1))

\* alternative 1, then a header that opens a repeat, then alternative 1
\* again, which the first header no longer reaches
C25_Witness ==
  /\ call.op = "read_measure_headers"
  /\ Len(headers) = 3
  /\ FlagByte(1) = 16 /\ FlagByte(2) = 4 /\ FlagByte(3) = 16
  /\ headers[1].repeat_alternative = 1
  /\ headers[2].is_repeat_open
  /\ headers[3].repeat_alternative = 1

\* the signed byte at offset p of the stream
SignedAt(p) == IF input[p + 1] >= 128 THEN input[p + 1] - 256 ELSE input[p + 1]

\* C26 as stated: a header whose flag bit 0x02 is set with denominator byte d
\* in 0..7 has the denominator Duration of value 2^d.
C26_DenominatorExponent ==
  call.op = "read_measure_headers" =>
    \A k \in 1 .. Len(headers) :
      LET d == SignedAt(FieldOffset(headers[k], 1))
      IN  ((FlagByte(k) \div 2) % 2 = 1 /\ d \in 0 .. 7) =>
             headers[k].time_signature.denominator.value = Pow2(d)

\* C26, amended: the denominator byte d is the duration value itself.  A
\* header whose flag bit 0x02 is set has d in {1, 2, 4, 8, 16, 32, 64} and the
\* denominator Duration of value d, undotted and with tuplet (1, 1); a pass
\* with any other byte produces no header.
C26_DenominatorValue ==
  call.op = "read_measure_headers" =>
    \A k \in 1 .. Len(headers) :
      LET d == SignedAt(FieldOffset(headers[k], 1))
      IN  (FlagByte(k) \div 2) % 2 = 1 =>
             /\ d \in {1, 2, 4, 8, 16, 32, 64}
             /\ headers[k].time_signature.denominator =
                  [value |-> d, is_dotted |-> FALSE, is_double_dotted |-> FALSE,
                   tuplet |-> [enters |-> 1, times |-> 1]]

\* a header read with denominator byte 2 has the half-note denominator, and
\* a second one with byte 8 the eighth-note denominator
C26_Witness ==
  /\ call.op = "read_measure_headers"
  /\ pc = "done"
  /\ result.kind = "Ok"
  /\ Len(headers) = 2
  /\ FlagByte(1) = 2 /\ input[2] = 2
  /\ headers[1].time_signature.denominator.value = 2
  /\ FlagByte(2) = 2 /\ input[4] = 8
  /\ headers[2].time_signature.denominator.value = 8

----------------------------------------------------------------------------
(* read_midi_channels (src/src/legacy/gp3_reader.rs), called on its own.   *)

\* n single-byte reads in a row from p: they stop at the first byte missing
read_bytes_one_by_one(d, p, n) ==
  IF p + n <= Len(d) THEN [ok |-> TRUE, io |-> p + n, buf |-> SubSeq(d, p + 1, p + n)]
  ELSE [ok |-> FALSE, io |-> Len(d), buf |-> <<>>]

SignedByte(b) == IF b >= 128 THEN b - 256 ELSE b

\* the Channel literal with effect_channel left at 0
new_channel_no_effect(i, instrument, levels) ==
  [channel |-> i, effect_channel |-> 0, instrument |-> instrument,
   volume |-> SignedByte(levels[1]), balance |-> SignedByte(levels[2]),
   chorus |-> SignedByte(levels[3]), reverb |-> SignedByte(levels[4]),
   phaser |-> SignedByte(levels[5]), tremolo |-> SignedByte(levels[6])]

\* the Channel literal of pass i
new_channel(i, instrument, levels) ==
  [channel |-> i, effect_channel |-> i, instrument |-> instrument,
   volume |-> SignedByte(levels[1]), balance |-> SignedByte(levels[2]),
   chorus |-> SignedByte(levels[3]), reverb |-> SignedByte(levels[4]),
   phaser |-> SignedByte(levels[5]), tremolo |-> SignedByte(levels[6])]

\* One pass of `for i in 0..64`: the channel is pushed before the two bytes
\* are skipped
ReadMidiChannel ==
  /\ pc = "read_midi_channels"
  /\ Len(channels) < ChannelCount
  /\ \E i \in {Len(channels)} :
     \E instrument \in {read_int_step(input, io)} :
     \E levels \in {read_bytes_one_by_one(input, instrument.io, 6)} :
     \E skipped \in {read_bytes_one_by_one(input, levels.io, 2)} :
       IF ~instrument.ok \/ ~levels.ok
         THEN /\ io' = IF instrument.ok THEN levels.io ELSE instrument.io
              /\ pc' = "done"
              /\ result' = [kind |-> "Err", error |-> "Io"]
              /\ UNCHANGED channels
       ELSE /\ channels' = Append(channels, new_channel(i, instrument.value, levels.buf))
            /\ io' = skipped.io
            /\ IF skipped.ok THEN UNCHANGED <<pc, result>>
               ELSE pc' = "done" /\ result' = [kind |-> "Err", error |-> "Io"]
  /\ UNCHANGED <<input, call, headers, tracks, gpxVars>>

\* Ok(channels)
ReadMidiChannelsReturn ==
  /\ pc = "read_midi_channels"
  /\ Len(channels) = ChannelCount
  /\ pc' = "done"
  /\ result' = [kind |-> "Ok", value |-> channels]
  /\ UNCHANGED <<input, call, legacyVars, gpxVars>>

NextMidiChannels == ReadMidiChannel \/ ReadMidiChannelsReturn

\* the 12 bytes of channel i on the wire: instrument, six levels that tell
\* the channels and the fields apart, two blank bytes
EncodeChannel(i, instrument) ==
  IntBytes(instrument) \o <<100 + i, i, 2 * i, 255 - i, 7, 200, 0, 0>>

RECURSIVE EncodeChannels(_, _, _)
EncodeChannels(n, even, odd) ==
  IF n = 0 THEN <<>>
  ELSE EncodeChannels(n - 1, even, odd)
       \o EncodeChannel(n - 1, IF (n - 1) % 2 = 0 THEN even ELSE odd)

\* how many bytes of the 768 the stream holds, or holds beyond them
MaxExtra == 2

StreamLens == {0, 3, 4, 9, 10, 11, 12, 13, 384, 756, 760, 766, 767}
              \cup (768 .. 768 + MaxExtra)

InitMidiChannels ==
  /\ \E instruments \in {<<-1, 24>>, <<25, -1>>, <<0, 65536>>} : \E n \in StreamLens :
       input = SubSeq(EncodeChannels(ChannelCount, instruments[1], instruments[2])
                      \o [k \in 1 .. MaxExtra |-> 1], 1, n)
  /\ call = [op |-> "read_midi_channels"]
  /\ pc = "read_midi_channels"
  /\ result = NoResult
  /\ IdleGpx
  /\ IdleLegacy

SpecMidiChannels == InitMidiChannels /\ [][NextMidiChannels]_vars

\* C27: on a stream of at least 768 bytes read_midi_channels consumes 64
\* records of 12 bytes and returns 64 channels in stream order, channel i
\* (from 0) with channel = i, effect_channel = i, the instrument of the
\* record's first four bytes and its six signed bytes; on a shorter stream
\* it returns an error and no channel list.
C27_MidiChannels ==
  (pc = "done" /\ call.op = "read_midi_channels") =>
    IF Len(input) >= 768
      THEN /\ result.kind = "Ok"
           /\ io = 768
           /\ Len(result.value) = 64
           /\ \A i \in 0 .. 63 :
                result.value[i + 1] =
                  [channel |-> i, effect_channel |-> i,
                   instrument |-> InputInt(12 * i),
                   volume |-> SignedAt(12 * i + 4), balance |-> SignedAt(12 * i + 5),
                   chorus |-> SignedAt(12 * i + 6), reverb |-> SignedAt(12 * i + 7),
                   phaser |-> SignedAt(12 * i + 8), tremolo |-> SignedAt(12 * i + 9)]
    ELSE result.kind = "Err" /\ DOMAIN result = {"kind", "error"}

\* the call has returned the 64 channels of a stream whose odd channels have
\* instrument -1 and whose channel 63 has volume 163 - 256
C27_Witness ==
  /\ pc = "done"
  /\ call.op = "read_midi_channels"
  /\ result.kind = "Ok"
  /\ Len(input) = 769
  /\ result.value[64].channel = 63
  /\ result.value[64].instrument = -1
  /\ result.value[64].volume = -93

----------------------------------------------------------------------------
(* read_beat (src/src/legacy/gp3_reader.rs) and Beat::time                  *)
(* (src/src/legacy/song.rs), called one after the other.                    *)

\* From<u8> for BeatStatus: from_u8(value).expect("Unknown beat status")
beat_status(p, value) ==
  IF value = 0 THEN Step(p, "Empty")
  ELSE IF value = 1 THEN Step(p, "Normal")
  ELSE IF value = 2 THEN Step(p, "Rest")
  ELSE Fail(p, "panic")

\* read_beat: the status local is computed and the Beat literal is built
\* with status: BeatStatus::Empty
read_beat(d, p, checked) ==
  LET flags == read_u8(d, p)
      byte == read_u8(d, flags.io)
      status == IF ~FlagSet(flags.value, 6) THEN Step(flags.io, "Normal")
                ELSE IF ~byte.ok THEN byte
                ELSE beat_status(byte.io, byte.value)
      duration == read_duration(d, status.io, flags.value, checked)
      failed == FirstFailure(<<flags, status, duration>>)
  IN  IF ~failed.ok THEN failed
      ELSE Step(duration.io,
                [notes |-> <<>>, duration |-> duration.value, text |-> <<>>,
                 start |-> 0, index |-> 0, status |-> "Empty"])

\* Beat::time
beat_time(beat) ==
  IF beat.status = "Empty" THEN 0 ELSE duration_time(beat.duration)

ReadBeat ==
  /\ pc = "read_beat"
  /\ \E r \in {read_beat(input, io, call.overflow_checks)} :
       /\ io' = r.io
       /\ pc' = IF r.ok THEN "beat" ELSE IF r.err = "panic" THEN "panic" ELSE "done"
       /\ result' = IF r.ok THEN [kind |-> "Ok", value |-> r.value]
                    ELSE IF r.err = "panic" THEN NoResult
                    ELSE [kind |-> "Err", error |-> r.err]
  /\ UNCHANGED <<input, call, songVars, gpxVars>>

\* the caller asks the beat it received for its time
BeatTime ==
  /\ pc = "beat"
  /\ pc' = "done"
  /\ result' = [kind |-> "usize", value |-> beat_time(result.value),
                beat |-> result.value]
  /\ UNCHANGED <<input, call, legacyVars, gpxVars>>

NextBeat == ReadBeat \/ BeatTime

StatusBytes == {0, 1, 2, 3}

InitBeat ==
  /\ \E flags \in {0, 1, 32, 64, 65, 96} : \E s \in StatusBytes :
       \E b \in {254, 0, 1, 6} : \E t \in {3, 13} :
         \E cut \in Cuts : \E checked \in BOOLEAN :
           LET bytes == <<flags>> \o (IF FlagSet(flags, 6) THEN <<s>> ELSE <<>>)
                        \o <<b>> \o (IF FlagSet(flags, 5) THEN IntBytes(t) ELSE <<>>)
           IN  /\ input = SubSeq(bytes, 1, Len(bytes) - cut)
               /\ call = [op |-> "read_beat", overflow_checks |-> checked]
  /\ pc = "read_beat"
  /\ result = NoResult
  /\ IdleGpx
  /\ IdleLegacy

SpecBeat == InitBeat /\ [][NextBeat]_vars

\* C28: the Beat that read_beat returns has status Normal when flag bit 0x40
\* is clear and, when it is set, the status of the byte after the flags
\* (0 is Empty, 2 is Rest); a beat read without flag 0x40 has a time other
\* than 0, and only a beat read as Empty has time 0.
C28_BeatStatus ==
  (call.op = "read_beat" /\ pc \in {"beat", "done"} /\ result.kind \in {"Ok", "usize"}) =>
    LET beat == IF pc = "beat" THEN result.value ELSE result.beat
        flagged == (input[1] \div 64) % 2 = 1
    IN  /\ ~flagged => beat.status = "Normal"
        /\ flagged /\ input[2] = 0 => beat.status = "Empty"
        /\ flagged /\ input[2] = 2 => beat.status = "Rest"
        /\ pc = "done" =>
             /\ ~flagged => result.value # 0
             /\ result.value = 0 => (flagged /\ input[2] = 0)

----------------------------------------------------------------------------
(* read_chord (src/src/legacy/gp3_reader.rs), called on its own.            *)

\* IoReader::read_bool: read_byte().map(|byte| byte > 0)
read_bool(d, p) ==
  LET byte == read_u8(d, p)
  IN  IF byte.ok THEN Step(byte.io, byte.value > 0) ELSE byte

\* `for i in 0..6 { frets.push(io.read_int()?) }` from its pass i on
RECURSIVE read_frets(_, _, _, _)
read_frets(d, p, i, frets) ==
  IF i = 6 THEN Step(p, frets)
  ELSE LET fret == read_int_step(d, p)
       IN  IF ~fret.ok THEN fret
           ELSE read_frets(d, fret.io, i + 1, Append(frets, fret.value))

\* read_old_chord: the six frets are read under `if first_fret > 0`
read_old_chord(d, p, checked) ==
  LET name == read_int_byte_sized_string(d, p, checked)
      first_fret == read_int_step(d, name.io)
      frets == IF first_fret.value > 0 THEN read_frets(d, first_fret.io, 0, <<>>)
               ELSE Step(first_fret.io, <<>>)
  IN  IF ~name.ok THEN Fail(name.io, name.err)
      ELSE IF ~first_fret.ok THEN first_fret
      ELSE IF ~frets.ok THEN frets
      ELSE Step(frets.io, [frets |-> frets.value, first_fret |-> first_fret.value])

\* Vec::truncate(len)
truncate(v, len) == SubSeq(v, 1, Min(len, Len(v)))

\* read_chord up to the call of read_new_chord, and all of the old format
ReadChord ==
  /\ pc = "read_chord"
  /\ \E new_format \in {read_bool(input, io)} :
       IF ~new_format.ok
         THEN /\ io' = new_format.io
              /\ pc' = "done"
              /\ result' = [kind |-> "Err", error |-> new_format.err]
       ELSE IF new_format.value
         THEN /\ io' = new_format.io
              /\ pc' = "read_new_chord"
              /\ result' = result
       ELSE \E chord \in {read_old_chord(input, new_format.io, call.overflow_checks)} :
              /\ io' = chord.io
              /\ pc' = IF chord.ok \/ chord.err # "panic" THEN "done" ELSE "panic"
              /\ result' = IF chord.ok
                             THEN [kind |-> "Ok",
                                   value |-> [chord |-> "OldChord",
                                              first_fret |-> chord.value.first_fret,
                                              frets |-> truncate(chord.value.frets,
                                                                 call.strings_count)]]
                           ELSE IF chord.err = "panic" THEN NoResult
                           ELSE [kind |-> "Err", error |-> chord.err]
  /\ UNCHANGED <<input, call, songVars, gpxVars>>

\* read_new_chord is `loop {}`: it never returns and changes nothing
ReadNewChord ==
  /\ pc = "read_new_chord"
  /\ UNCHANGED vars

NextChord == ReadChord \/ ReadNewChord

\* the wire bytes of six frets
WireFrets == IntBytes(0) \o IntBytes(2) \o IntBytes(2) \o IntBytes(1) \o IntBytes(-1) \o IntBytes(3)

\* chord names on the wire: "Em" in a field of 2 bytes, and a field of size 0
ChordNames == {IntBytes(3) \o <<2, 69, 109>>, IntBytes(0) \o <<0>>}

InitChord ==
  /\ \E header \in {0, 1} : \E name \in ChordNames : \E first_fret \in {1, 3, 0, -1} :
       \E strings_count \in {4, 6, 7} : \E cut \in Cuts : \E checked \in BOOLEAN :
         LET bytes == <<header>> \o name \o IntBytes(first_fret) \o WireFrets
         IN  /\ input = SubSeq(bytes, 1, Len(bytes) - cut)
             /\ call = [op |-> "read_chord", strings_count |-> strings_count,
                        overflow_checks |-> checked]
  /\ pc = "read_chord"
  /\ result = NoResult
  /\ IdleGpx
  /\ IdleLegacy

SpecChord == InitChord /\ [][NextChord]_vars

\* the little-endian i32 at offset p of the input
WireInt(p) == LittleEndianI32(input[p + 1], input[p + 2], input[p + 3], input[p + 4])

\* C29: an old-format chord (leading boolean false) that read_chord returns
\* has consumed the name, first_fret and six frets whatever first_fret is:
\* the reader stands after the sixth fret and the chord keeps the first
\* min(6, strings_count) of the six frets on the wire.
C29_OldChord ==
  (call.op = "read_chord" /\ pc = "done" /\ input[1] = 0 /\ result.kind = "Ok") =>
    LET size == WireInt(1)
        first == 1 + 4 + (IF size > 0 THEN size ELSE 1)
        kept == Min(6, call.strings_count)
    IN  /\ result.value.first_fret = WireInt(first)
        /\ io = first + 4 + 24
        /\ result.value.frets = [i \in 1 .. kept |-> WireInt(first + 4 * i)]

----------------------------------------------------------------------------
(* read_tracks on a track record whose channel index is out of the bank.    *)

\* C30: a track read that reaches read_channel with a wire channel index
\* outside 1..64 ends the parse with an error value for the caller: the
\* parse is finished with an Err result, it has not panicked, no Song is
\* built and the channel bank is as it was.
C30_ChannelIndexError ==
  [][(/\ pc = "read_tracks"
      /\ call.op = "read_tracks"
      /\ Len(tracks) < call.track_count
      /\ Len(input) >= io + 86
      /\ input[io + 2] <= 40
      /\ WireChannel(io) \notin 1 .. 64) =>
        /\ pc' = "done"
        /\ result'.kind = "Err"
        /\ channels' = channels]_vars

====
